---- MODULE Spec2Model ----
(***************************************************************************)
(* Model of the EWS (Early Warning System) placeholder models of           *)
(* src/app/modules/ews/service.py.                                         *)
(*                                                                         *)
(* The models compute with Python floats (IEEE-754 binary64) and return    *)
(* values rounded with round(x, ndigits).  Whether a rounded score still   *)
(* lies in the band its level names is decided by the last bit of the      *)
(* unrounded double, so the arithmetic is modelled exactly: a double is a  *)
(* sign, a 53-bit mantissa and a binary exponent, and every operation      *)
(* rounds to nearest, ties to even, as the hardware does.  TLC's integers  *)
(* are 32 bits wide, so mantissas are kept as little-endian sequences of   *)
(* 15-bit limbs.                                                            *)
(***************************************************************************)
EXTENDS Integers, Sequences, FiniteSets, TLC

(***************************************************************************)
(* Natural numbers of any size: little-endian limb sequences, no leading   *)
(* zero limb; <<>> is 0.                                                   *)
(***************************************************************************)
Base == 2^15

\* Op applied to the values of its arguments: each argument is evaluated once,
\* however often Op's definition mentions it.
Strict1(Op(_), x) == CHOOSE r \in {Op(v) : v \in {x}} : TRUE
Strict2(Op(_, _), x, y) == CHOOSE r \in {Op(v, w) : v \in {x}, w \in {y}} : TRUE

Limb(a, i) == IF i <= Len(a) THEN a[i] ELSE 0

RECURSIVE BigTrimTo(_, _)
BigTrimTo(a, n) ==
  IF n = 0 THEN <<>>
  ELSE IF a[n] = 0 THEN BigTrimTo(a, n - 1) ELSE SubSeq(a, 1, n)

BigTrimV(a) == BigTrimTo(a, Len(a))
BigTrim(a) == Strict1(BigTrimV, a)

RECURSIVE BigFromInt(_)
BigFromInt(n) == IF n = 0 THEN <<>> ELSE <<n % Base>> \o BigFromInt(n \div Base)

RECURSIVE BigToIntFrom(_, _)
BigToIntFrom(a, i) == IF i > Len(a) THEN 0 ELSE a[i] + Base * BigToIntFrom(a, i + 1)

BigToIntV(a) == BigToIntFrom(a, 1)
BigToInt(a) == Strict1(BigToIntV, a)

RECURSIVE BigAddFrom(_, _, _, _)
BigAddFrom(a, b, i, c) ==
  IF i > Len(a) /\ i > Len(b) THEN (IF c = 0 THEN <<>> ELSE <<c>>)
  ELSE LET s == Limb(a, i) + Limb(b, i) + c
       IN  <<s % Base>> \o BigAddFrom(a, b, i + 1, s \div Base)

BigAddV(a, b) == BigAddFrom(a, b, 1, 0)
BigAdd(a, b) == Strict2(BigAddV, a, b)

\* a - b for a >= b
RECURSIVE BigSubFrom(_, _, _, _)
BigSubFrom(a, b, i, borrow) ==
  IF i > Len(a) THEN <<>>
  ELSE LET d == a[i] - Limb(b, i) - borrow
       IN  IF d < 0 THEN <<d + Base>> \o BigSubFrom(a, b, i + 1, 1)
                    ELSE <<d>> \o BigSubFrom(a, b, i + 1, 0)

BigSubV(a, b) == BigTrim(BigSubFrom(a, b, 1, 0))
BigSub(a, b) == Strict2(BigSubV, a, b)

RECURSIVE BigCmpFrom(_, _, _)
BigCmpFrom(a, b, i) ==
  IF i = 0 THEN 0
  ELSE IF a[i] < b[i] THEN -1
  ELSE IF a[i] > b[i] THEN 1
  ELSE BigCmpFrom(a, b, i - 1)

\* -1, 0 or 1 as a < b, a = b or a > b
BigCmpV(a, b) ==
  IF Len(a) < Len(b) THEN -1
  ELSE IF Len(a) > Len(b) THEN 1
  ELSE BigCmpFrom(a, b, Len(a))
BigCmp(a, b) == Strict2(BigCmpV, a, b)

\* a * k for 0 <= k <= Base
RECURSIVE BigMulSmallFrom(_, _, _, _)
BigMulSmallFrom(a, k, i, c) ==
  IF i > Len(a) THEN (IF c = 0 THEN <<>> ELSE <<c>>)
  ELSE LET p == a[i] * k + c
       IN  <<p % Base>> \o BigMulSmallFrom(a, k, i + 1, p \div Base)

BigMulSmallV(a, k) == IF k = 0 THEN <<>> ELSE BigMulSmallFrom(a, k, 1, 0)
BigMulSmall(a, k) == Strict2(BigMulSmallV, a, k)

\* a * Base^n
BigShiftLimbsV(a, n) == IF a = <<>> THEN a ELSE [i \in 1..n |-> 0] \o a
BigShiftLimbs(a, n) == Strict2(BigShiftLimbsV, a, n)

RECURSIVE BigMulFrom(_, _, _)
BigMulFrom(a, b, i) ==
  IF i > Len(b) THEN <<>>
  ELSE BigAdd(BigShiftLimbs(BigMulSmall(a, b[i]), i - 1), BigMulFrom(a, b, i + 1))

BigMulV(a, b) == BigMulFrom(a, b, 1)
BigMul(a, b) == Strict2(BigMulV, a, b)

\* floor(a / d) and a mod d for 1 <= d <= Base, most significant limb first
RECURSIVE BigDivSmallFrom(_, _, _, _)
BigDivSmallFrom(a, d, i, r) ==
  IF i = 0 THEN <<>>
  ELSE LET cur == r * Base + a[i]
       IN  BigDivSmallFrom(a, d, i - 1, cur % d) \o <<cur \div d>>

BigDivSmallV(a, d) == BigTrim(BigDivSmallFrom(a, d, Len(a), 0))
BigDivSmall(a, d) == Strict2(BigDivSmallV, a, d)

RECURSIVE BigModSmallFrom(_, _, _, _)
BigModSmallFrom(a, d, i, r) ==
  IF i = 0 THEN r ELSE BigModSmallFrom(a, d, i - 1, (r * Base + a[i]) % d)

BigModSmallV(a, d) == BigModSmallFrom(a, d, Len(a), 0)
BigModSmall(a, d) == Strict2(BigModSmallV, a, d)

\* a * 2^n and floor(a / 2^n)
BigShlV(a, n) == BigShiftLimbs(BigMulSmall(a, 2^(n % 15)), n \div 15)
BigShl(a, n) == Strict2(BigShlV, a, n)

BigShrV(a, n) ==
  IF n \div 15 >= Len(a) THEN <<>>
  ELSE BigDivSmall(SubSeq(a, (n \div 15) + 1, Len(a)), 2^(n % 15))
BigShr(a, n) == Strict2(BigShrV, a, n)

RECURSIVE BitLen(_)
BitLen(x) == IF x = 0 THEN 0 ELSE 1 + BitLen(x \div 2)

BigBitLenV(a) == IF a = <<>> THEN 0 ELSE 15 * (Len(a) - 1) + BitLen(a[Len(a)])
BigBitLen(a) == Strict1(BigBitLenV, a)

BigIsOdd(a) == a # <<>> /\ a[1] % 2 = 1

\* floor and remainder of a / 2^s rounded to the nearest integer, ties to even
BigRoundUp(a, s, q) ==
  LET c == BigCmp(BigSub(a, BigShl(q, s)), BigShl(<<1>>, s - 1))
  IN  c > 0 \/ (c = 0 /\ BigIsOdd(q))

BigRoundShrQ(as, q) == IF BigRoundUp(as[1], as[2], q) THEN BigAdd(q, <<1>>) ELSE q
BigRoundShrV(a, s) == IF s = 0 THEN a ELSE Strict2(BigRoundShrQ, <<a, s>>, BigShr(a, s))
BigRoundShr(a, s) == Strict2(BigRoundShrV, a, s)

(***************************************************************************)
(* IEEE-754 binary64 values: (-1)^neg * m * 2^e with m of exactly 53 bits, *)
(* or zero.  The values of the models lie between 2^-10 and 8, far from    *)
(* the subnormal and overflow ranges, which are not modelled.              *)
(***************************************************************************)
Zero == [neg |-> FALSE, m |-> <<>>, e |-> 0]

IsZero(x) == x.m = <<>>

\* the double nearest to n * 2^e (ties to even), n a natural number
\* q is n cut to 53 bits and rounded, e1 its exponent; rounding up may carry
\* into a 54th bit
Renormalize(q, e1) ==
  IF BigBitLen(q) > 53
    THEN [neg |-> FALSE, m |-> BigShr(q, 1), e |-> e1 + 1]
    ELSE [neg |-> FALSE, m |-> q, e |-> e1]

RoundToDoubleV(n, e) ==
  LET len == BigBitLen(n)
  IN  IF len = 0 THEN Zero
      ELSE IF len <= 53
        THEN [neg |-> FALSE, m |-> BigShl(n, 53 - len), e |-> e - (53 - len)]
      ELSE Strict2(Renormalize, BigRoundShr(n, len - 53), e + (len - 53))
RoundToDouble(n, e) == Strict2(RoundToDoubleV, n, e)

NegateV(x) == IF IsZero(x) THEN x ELSE [x EXCEPT !.neg = ~x.neg]
Negate(x) == Strict1(NegateV, x)

\* The double nearest to p / q, for integers 0 <= p < 2^31, 1 <= q <= Base:
\* what Python's int / int and its parsing of a decimal literal both return.
\* 2^70 p / q is cut to an integer and a sticky bit records a remainder.
RatioN(num, q) ==
  LET quo    == BigDivSmall(num, q)
      sticky == IF BigModSmall(num, q) = 0 THEN <<>> ELSE <<1>>
  IN  RoundToDouble(BigAdd(BigMulSmall(quo, 2), sticky), -71)
Ratio(p, q) == Strict2(RatioN, BigShl(BigFromInt(p), 70), q)

\* magnitudes aligned to the smaller exponent
AlignedM(x, e) == IF IsZero(x) THEN <<>> ELSE BigShl(x.m, x.e - e)
MinExp(x, y) ==
  IF IsZero(x) THEN y.e ELSE IF IsZero(y) THEN x.e
  ELSE IF x.e < y.e THEN x.e ELSE y.e

CmpMagV(x, y) == BigCmp(AlignedM(x, MinExp(x, y)), AlignedM(y, MinExp(x, y)))
CmpMag(x, y) == Strict2(CmpMagV, x, y)

\* -1, 0 or 1 as x < y, x = y or x > y
FCmpV(x, y) ==
  IF x.neg /\ ~y.neg THEN -1
  ELSE IF ~x.neg /\ y.neg THEN 1
  ELSE IF x.neg THEN CmpMag(y, x) ELSE CmpMag(x, y)
FCmp(x, y) == Strict2(FCmpV, x, y)

FLt(x, y) == FCmp(x, y) < 0
FLe(x, y) == FCmp(x, y) <= 0

\* x + y, x - y and x * y, each rounded once
Signed(neg, r) == IF neg THEN Negate(r) ELSE r

FAddV(x, y) ==
  LET e  == MinExp(x, y)
      mx == AlignedM(x, e)
      my == AlignedM(y, e)
  IN  IF x.neg = y.neg THEN Signed(x.neg, RoundToDouble(BigAdd(mx, my), e))
      ELSE IF BigCmp(mx, my) >= 0
        THEN Signed(x.neg, RoundToDouble(BigSub(mx, my), e))
      ELSE Signed(y.neg, RoundToDouble(BigSub(my, mx), e))
FAdd(x, y) == Strict2(FAddV, x, y)

FSub(x, y) == FAdd(x, Negate(y))

FMulV(x, y) ==
  IF IsZero(x) \/ IsZero(y) THEN Zero
  ELSE Signed(x.neg # y.neg, RoundToDouble(BigMul(x.m, y.m), x.e + y.e))
FMul(x, y) == Strict2(FMulV, x, y)

\* Python's min(x, y): the first argument unless the second is smaller
PyMinV(x, y) == IF FLt(y, x) THEN y ELSE x
PyMin(x, y) == Strict2(PyMinV, x, y)

\* |x| * scale rounded to the nearest integer, ties to even, on the exact
\* binary value of x
ScaledIntV(x, scale) ==
  LET n == BigMulSmall(x.m, scale)
  IN  IF IsZero(x) THEN 0
      ELSE IF x.e >= 0 THEN BigToInt(BigShl(n, x.e))
      ELSE BigToInt(BigRoundShr(n, 0 - x.e))
ScaledInt(x, scale) == Strict2(ScaledIntV, x, scale)

\* Python's round(x, ndigits) of a float: the correctly rounded decimal with
\* ndigits places, converted back to the nearest double
PyRoundV(x, ndigits) == Signed(x.neg, Ratio(ScaledInt(x, 10^ndigits), 10^ndigits))
PyRound(x, ndigits) == Strict2(PyRoundV, x, ndigits)

\* the decimal literal  units / 10^places
Dec(units, places) == Ratio(units, 10^places)

\* int -> float, for n >= 0
FromInt(n) == RoundToDouble(BigFromInt(n), 0)

\* the float literals of service.py, each parsed once
f0_01 == Dec(1, 2)
f0_02 == Dec(2, 2)
f0_1 == Dec(1, 1)
f0_15 == Dec(15, 2)
f0_2 == Dec(2, 1)
f0_3 == Dec(3, 1)
f0_4 == Dec(4, 1)
f0_5 == Dec(5, 1)
f0_6 == Dec(6, 1)
f0_80 == Dec(80, 2)
f0_85 == Dec(85, 2)
f1_0 == Dec(10, 1)
f1_15 == Dec(115, 2)
f1_2 == Dec(12, 1)
f1_25 == Dec(125, 2)
f1_3 == Dec(13, 1)
f2_0 == Dec(20, 1)
f26_91 == Dec(2691, 2)
f75_79 == Dec(7579, 2)

(***************************************************************************)
(* Bounds of the model and the inputs drawn from them.                     *)
(***************************************************************************)
MaxAreaId == 109
MaxTime == 1
MaxStartPoints == 2

AreaIds == 0..MaxAreaId
\* datetimes, in hours since an arbitrary origin
Times == 0..MaxTime

\* src/app/core/ctypes/enums.py
LOW == "low"
MODERATE == "moderate"
HIGH == "high"
EXTREME == "extreme"
RiskLevel == {LOW, MODERATE, HIGH, EXTREME}
HazardType == {"landslide", "subsidence"}
TimeHorizon == {"6h", "24h", "72h", "7d"}
HeatmapResolution == {"low", "medium", "high"}
SimulationType == {"rainfall", "soil_saturation", "groundwater_rise", "load_increase"}

\* the models take plain strings: one value outside each enumeration
Horizons == TimeHorizon \cup {"12h"}
Resolutions == HeatmapResolution \cup {"ultra"}
ScenarioTypes == SimulationType \cup {"other"}

\* Optional[float]: <<>> is None, <<x>> a value
None == <<>>
Some(x) == <<x>>
\* Python truthiness of an Optional[float]: None and 0.0 are false
Truthy(o) == o # None /\ ~IsZero(o[1])

\* baseline_risk in [0, 1], to two decimals
BaselineRisks == {Dec(k, 2) : k \in 0..100}
TotalMms == {None, Some(Zero), Some(FromInt(200)), Some(FromInt(201))}
RiseMeters == {None, Some(Zero), Some(f1_0), Some(Dec(11, 1))}
ScenarioInputs ==
  [type : ScenarioTypes, total_mm : TotalMms, rise_meters : RiseMeters]

\* schemas.Coordinate: lat in [-90, 90], lon in [-180, 180]
Coordinates ==
  { [lat |-> f26_91, lon |-> f75_79],
    [lat |-> FromInt(90), lon |-> FromInt(180)],
    [lat |-> Negate(FromInt(90)), lon |-> Negate(FromInt(180))] }
StartPointLists == UNION {[1..n -> Coordinates] : n \in 0..MaxStartPoints}

(***************************************************************************)
(* hashlib.md5: int(md5(f"{area_id}{hazard}{horizon}").hexdigest()[:8], 16)*)
(* % 100, tabulated for area_id 0..119 (entry area_id + 1), each hazard    *)
(* and each horizon string of Horizons.                                    *)
(***************************************************************************)
md5_seed_row(hazard, horizon) ==
  CASE
       hazard = "landslide" /\ horizon = "6h" -> <<
         31, 37, 50, 61, 59, 37,  5, 74, 10, 77, 62, 40, 59,  7, 15,  3, 87, 45, 10, 43,
         51, 38, 96, 39, 35,  6, 20, 88, 42, 57, 75, 26, 23, 59, 92, 19, 97, 67,  2,  3,
         35, 52, 32, 33, 18, 12, 74, 87, 49, 46, 84, 45, 54, 70, 58, 11, 68, 73, 46, 23,
         64, 66, 40, 31, 34, 11, 47, 26, 40, 37, 84, 75, 18,  2, 94,  5, 86, 10, 46, 20,
         80, 62, 24, 38, 78, 24, 77, 90, 70, 38, 36, 52, 78, 39, 60, 73, 20, 46, 74, 87,
         45, 81, 70, 38, 32, 54, 91, 87,  2, 32, 57,  4, 30, 65, 72, 60, 75, 29, 54, 25 >>
    [] hazard = "landslide" /\ horizon = "24h" -> <<
          0, 47,  9, 52,  5, 15, 58, 25, 75, 32, 87, 93, 18, 60, 68,  8, 77, 10, 91, 11,
         65,  6, 65, 31, 64, 34, 96, 18, 27, 28, 11, 75,  5, 69, 67,  2, 26, 36, 38, 20,
         83, 76, 94, 25, 23, 53,  1, 12, 87, 58,  1, 20, 84, 88, 64,  6, 76, 29, 54, 44,
         49, 21, 52, 24, 23, 96, 48,  7, 29, 75, 60, 87, 60, 58, 44, 35,  1, 95, 50, 90,
         50, 59, 49, 29, 12, 75, 24, 22, 73, 76, 27, 46, 57, 67, 31, 15, 54, 20, 62, 75,
         17, 34, 88, 75, 21, 24, 77, 39, 77, 75, 45, 15, 28, 10,  0, 16, 16, 78, 77, 56 >>
    [] hazard = "landslide" /\ horizon = "72h" -> <<
         60, 50, 45, 20,  1,  8, 86, 66, 89, 82, 77, 94, 74, 12, 48, 30, 98, 97, 12,  9,
         29, 13, 37, 39, 83, 38, 95,  8, 79, 62, 51, 30, 37, 43, 36, 35, 92, 31, 39, 21,
         51, 38, 99, 37, 77, 41, 37, 26, 11, 88, 22, 85, 82, 53, 26, 97, 11, 21, 59, 95,
         59,  2, 71, 88, 18, 32, 31,  5, 92, 73, 77, 81, 71, 70, 55, 71, 45, 30, 86, 12,
          2,  5, 37, 86, 89, 43, 87, 25,  0, 83, 34, 56,  3, 97, 67, 69, 57, 62, 63, 67,
         70, 63, 77, 47, 96, 64, 16, 70, 71, 91, 74, 22, 73, 36, 13, 81, 99, 51, 69, 15 >>
    [] hazard = "landslide" /\ horizon = "7d" -> <<
         14, 12, 21, 62, 16, 18,  4, 97, 62, 50,  8, 73, 29, 71, 96, 83, 23, 73,  9,  5,
         83, 97, 90, 42, 96, 36, 66, 78, 96, 18, 26, 11, 87, 75, 75, 70, 28, 59, 18, 71,
          9, 24, 88, 49, 57, 95, 16, 77, 84, 60, 48, 69, 50, 11,  3, 85, 89,  6, 50, 37,
         16, 71, 89, 26,  5, 57, 12, 29, 32,  1, 32, 69, 30, 19, 32, 26, 46, 42, 49, 45,
         95, 29, 42, 80, 21, 39, 32, 18, 92, 50, 12, 33, 62, 18, 98, 49, 87, 25, 57, 67,
         94,  7, 15, 67, 38, 48, 79, 11,  0, 67, 18, 45, 53, 35, 29, 79,  3,  1, 84, 72 >>
    [] hazard = "landslide" /\ horizon = "12h" -> <<
         73, 80, 62, 68, 87, 52, 92, 36, 51, 50, 28, 93,  3, 74, 73, 64,  1, 95, 52, 17,
         11, 79, 42, 27, 35, 94, 26, 99, 45, 55, 36, 70, 98, 98, 66,  6,  4, 65, 56,  4,
         35, 69,  2, 91, 61, 43, 80, 92, 70, 62, 29, 71, 81, 33, 88, 10, 16,  7, 72, 85,
         45, 32, 63, 47, 37, 10, 12, 86, 41, 68, 15, 74, 18, 34, 11, 10, 38, 32, 58, 73,
         78, 90, 87, 48, 24, 86, 36, 84, 69, 57, 69, 11,  8, 65, 59, 64, 40, 33, 28, 47,
         94, 22, 45, 31, 17, 55, 71, 59, 37, 98, 74, 66, 38,  7, 25, 41, 67, 62, 56, 76 >>
    [] hazard = "subsidence" /\ horizon = "6h" -> <<
         43, 51, 63,  4, 67, 64, 80,  0, 52, 11, 76, 16, 74, 68, 36, 20, 34, 80, 40, 11,
         99, 74, 25, 46, 88, 67, 32, 17, 39, 72,  1, 12,  8, 76, 78, 88, 58, 42, 95, 32,
         98, 48, 88, 67, 13, 63, 14, 72, 34, 15, 54,  0, 52, 90, 48, 78, 99, 41, 41, 80,
          1, 39, 21, 13,  1, 25, 50, 20, 84, 65, 50, 29, 88, 25,  6, 82, 31, 77, 87, 95,
          7,  0, 85, 72, 18, 75, 11, 52, 57, 43,  9, 81, 25, 37, 63, 12, 62,  5, 30, 95,
         15, 20, 13, 63, 61, 42, 74, 36, 32, 38, 56, 42, 10, 79, 50, 96, 23,  5, 25, 13 >>
    [] hazard = "subsidence" /\ horizon = "24h" -> <<
         31, 93, 57, 51, 52, 20, 96, 73, 20, 11, 69, 55,  2, 51,  7, 96, 84, 84, 18, 79,
          2, 95, 19, 71, 55, 24, 38, 90, 91, 47,  7,  8, 55, 31, 66,  4, 83, 34, 71, 67,
         34, 30, 53, 52, 75, 98, 71,  9, 70,  9, 36, 48, 56, 89, 63,  3, 63, 85, 62, 72,
         52,  1, 14, 42,  4, 66, 62, 14, 38, 98, 97, 38, 83, 57, 31, 41, 97, 66, 15, 61,
          9, 29, 31, 43, 37, 49, 18, 73, 39,  2, 21, 45, 98, 26,  8, 15, 80, 68, 52, 15,
          0, 46, 97, 32, 98, 56, 13, 22,  0, 92, 86, 79, 11, 51, 92, 95, 93, 89, 26, 47 >>
    [] hazard = "subsidence" /\ horizon = "72h" -> <<
         91, 92, 12, 62, 61, 71, 31, 37, 46, 62, 73, 62, 28, 29,  7, 38,  0, 39, 97, 98,
         43, 48, 13, 68, 92, 76, 45, 34, 62, 82, 71, 97, 32, 87,  7, 72, 19, 35, 66, 85,
         69, 27,  1, 60,  2, 18, 96, 98, 31,  3, 42, 12, 85, 89, 11, 44, 72, 17, 78, 75,
         80, 83, 23, 67, 21, 59, 45, 23, 89, 42,  8, 20, 46, 61, 39, 20, 62, 30, 87, 61,
         64, 52, 87, 16, 31, 18, 72, 61, 27, 73, 38, 51, 19, 16, 76,  9, 55, 23,  8,  9,
         89, 76,  5, 22, 26, 90, 45, 55, 77, 60, 45, 74, 93, 46, 82, 37, 71, 96, 59, 75 >>
    [] hazard = "subsidence" /\ horizon = "7d" -> <<
         48, 50, 30, 76, 98, 20, 36, 71, 35, 72, 27,  4, 53, 32, 29, 74, 58, 19, 48, 96,
         87, 35, 64, 26, 17, 54, 27, 40, 50, 85, 80, 53, 64, 72, 39, 78,  6, 15, 27, 41,
         59, 21, 24, 12, 56, 49,  0,  3, 70, 55, 97, 30, 65, 41, 75, 96, 59, 47, 13, 87,
         33, 32,  6, 70, 80, 49, 74, 36, 35, 75, 30, 15, 37, 90, 69, 79, 95, 98, 82, 91,
         27, 84,  3, 73, 85, 98, 47,  3, 75, 50, 47, 63, 27, 70, 65, 58, 97, 12, 50, 48,
         17, 30, 44, 72, 53, 81, 80, 44, 12, 34, 65, 44,  9, 49, 58, 98, 73, 65, 58, 55 >>
    [] hazard = "subsidence" /\ horizon = "12h" -> <<
         51,  9, 57, 29, 83, 96, 63, 12, 47, 66, 10, 37, 90, 75, 67, 51, 85, 14, 69, 47,
         58, 44, 88, 83, 89, 10, 75, 64, 26, 34, 75, 83, 33,  0, 63,  5, 55, 25, 67, 86,
         98, 32, 30, 26, 71, 40, 45, 42, 11, 38, 18,  3, 52, 91, 61, 47, 96, 98, 63, 76,
         16, 50, 24, 26, 13, 12, 19, 43, 27, 27, 45, 90, 31, 69, 50,  5, 91, 83, 22, 49,
         34, 52, 10, 77, 53, 70, 57, 23, 52, 77, 11,  9, 14, 42, 59, 85, 50, 84, 24, 77,
         97, 11,  4, 99, 70, 44, 36,  5, 59, 49, 49, 46, 49,  4, 56, 59, 44, 76, 91, 85 >>

Md5Seed(area_id, hazard, horizon) == md5_seed_row(hazard, horizon)[area_id + 1]

(***************************************************************************)
(* The placeholder models of service.py.                                   *)
(***************************************************************************)
\* a slip: the seed without its reduction mod 100
StabilityModel_seed_unreduced(area_id) == area_id

StabilityModel_seed(area_id) == area_id % 100

\* a slip: displacement rounded to 2 places like the other fields
StabilityModel_predict_round2(area_id, time_range_from, time_range_to) ==
  LET seed            == StabilityModel_seed(area_id)
      stability_index == FAdd(f0_3, Ratio(seed, 200))
      confidence      == FAdd(f0_85, Ratio(seed, 1000))
      soil_moisture   == FAdd(f0_4, Ratio(seed, 250))
      displacement    == FAdd(f2_0, Ratio(seed, 25))
      rainfall        == 300 + seed * 2
  IN  [stability_index |-> PyRound(stability_index, 2),
       confidence |-> PyRound(confidence, 2),
       soil_moisture_avg |-> PyRound(soil_moisture, 2),
       displacement_trend_mm_per_month |-> PyRound(displacement, 2),
       rainfall_accumulation_mm |-> rainfall]

StabilityModel_predict(area_id, time_range_from, time_range_to) ==
  LET seed            == StabilityModel_seed(area_id)
      stability_index == FAdd(f0_3, Ratio(seed, 200))
      confidence      == FAdd(f0_85, Ratio(seed, 1000))
      soil_moisture   == FAdd(f0_4, Ratio(seed, 250))
      displacement    == FAdd(f2_0, Ratio(seed, 25))
      rainfall        == 300 + seed * 2
  IN  [stability_index |-> PyRound(stability_index, 2),
       confidence |-> PyRound(confidence, 2),
       soil_moisture_avg |-> PyRound(soil_moisture, 2),
       displacement_trend_mm_per_month |-> PyRound(displacement, 1),
       rainfall_accumulation_mm |-> rainfall]

\* a slip: the HIGH band opened with <= instead of <
HazardPredictionModel_risk_level_le(risk_score) ==
  IF FLt(risk_score, f0_3) THEN LOW
  ELSE IF FLe(risk_score, f0_6) THEN MODERATE
  ELSE IF FLt(risk_score, f0_85) THEN HIGH
  ELSE EXTREME

\* the if-chain of HazardPredictionModel.predict
HazardPredictionModel_risk_level(risk_score) ==
  IF FLt(risk_score, f0_3) THEN LOW
  ELSE IF FLt(risk_score, f0_6) THEN MODERATE
  ELSE IF FLt(risk_score, f0_85) THEN HIGH
  ELSE EXTREME

\* a slip: 7 for the 168 hours of "7d"
horizon_hours_7 == ("6h" :> 6) @@ ("24h" :> 24) @@ ("72h" :> 72) @@ ("7d" :> 7)

horizon_hours == ("6h" :> 6) @@ ("24h" :> 24) @@ ("72h" :> 72) @@ ("7d" :> 168)

\* a slip: the clock mixed into the seed
HazardPredictionModel_locals_clock(area_id, hazard, horizon, now) ==
  LET seed       == Md5Seed(area_id + now, hazard, horizon)
      risk_score == FAdd(f0_5, Ratio(seed, 200))
      confidence == FAdd(f0_80, Ratio(seed, 500))
      hours      == IF horizon \in DOMAIN horizon_hours
                      THEN horizon_hours[horizon] ELSE 24
  IN  [seed |-> seed,
       risk_score |-> risk_score,
       confidence |-> confidence,
       risk_level |-> HazardPredictionModel_risk_level(risk_score),
       now |-> now,
       hours |-> hours,
       expected_window_from |-> now + (hours \div 2),
       expected_window_to |-> now + hours]

\* a slip: seed / 400 for seed / 500 in confidence
HazardPredictionModel_locals_400(area_id, hazard, horizon, now) ==
  LET seed       == Md5Seed(area_id, hazard, horizon)
      risk_score == FAdd(f0_5, Ratio(seed, 200))
      confidence == FAdd(f0_80, Ratio(seed, 400))
      hours      == IF horizon \in DOMAIN horizon_hours
                      THEN horizon_hours[horizon] ELSE 24
  IN  [seed |-> seed,
       risk_score |-> risk_score,
       confidence |-> confidence,
       risk_level |-> HazardPredictionModel_risk_level(risk_score),
       now |-> now,
       hours |-> hours,
       expected_window_from |-> now + (hours \div 2),
       expected_window_to |-> now + hours]

\* the local variables of a HazardPredictionModel.predict call at its return
HazardPredictionModel_locals(area_id, hazard, horizon, now) ==
  LET seed       == Md5Seed(area_id, hazard, horizon)
      risk_score == FAdd(f0_5, Ratio(seed, 200))
      confidence == FAdd(f0_80, Ratio(seed, 500))
      hours      == IF horizon \in DOMAIN horizon_hours
                      THEN horizon_hours[horizon] ELSE 24
  IN  [seed |-> seed,
       risk_score |-> risk_score,
       confidence |-> confidence,
       risk_level |-> HazardPredictionModel_risk_level(risk_score),
       now |-> now,
       hours |-> hours,
       expected_window_from |-> now + (hours \div 2),
       expected_window_to |-> now + hours]

\* the return statement of HazardPredictionModel.predict, on the locals l
HazardPredictionModel_return(l) ==
  [risk_score |-> PyRound(l.risk_score, 2),
   risk_level |-> l.risk_level,
   confidence |-> PyRound(l.confidence, 2),
   expected_window_from |-> l.expected_window_from,
   expected_window_to |-> l.expected_window_to]

\* now is the value datetime.utcnow() returns inside the call
HazardPredictionModel_predict(area_id, hazard, horizon, now) ==
  Strict1(HazardPredictionModel_return,
          HazardPredictionModel_locals(area_id, hazard, horizon, now))

\* a slip: a load increase taken to lower the risk
impact_multipliers_damped ==
  ("rainfall" :> f1_3) @@ ("soil_saturation" :> f1_2)
    @@ ("groundwater_rise" :> f1_25) @@ ("load_increase" :> Dec(85, 2))

impact_multipliers ==
  ("rainfall" :> f1_3) @@ ("soil_saturation" :> f1_2)
    @@ ("groundwater_rise" :> f1_25) @@ ("load_increase" :> f1_15)

\* a slip: the rainfall bonus from 200 mm on instead of above 200 mm
ScenarioSimulationModel_multiplier_ge(scenario) ==
  LET m0 == IF scenario.type \in DOMAIN impact_multipliers
              THEN impact_multipliers[scenario.type] ELSE f1_2
      m1 == IF Truthy(scenario.total_mm) /\ FLe(FromInt(200), scenario.total_mm[1])
              THEN FAdd(m0, f0_1) ELSE m0
  IN  IF Truthy(scenario.rise_meters) /\ FLt(f1_0, scenario.rise_meters[1])
        THEN FAdd(m1, f0_15) ELSE m1

\* the multiplier of ScenarioSimulationModel.simulate
ScenarioSimulationModel_multiplier(scenario) ==
  LET m0 == IF scenario.type \in DOMAIN impact_multipliers
              THEN impact_multipliers[scenario.type] ELSE f1_2
      m1 == IF Truthy(scenario.total_mm) /\ FLt(FromInt(200), scenario.total_mm[1])
              THEN FAdd(m0, f0_1) ELSE m0
  IN  IF Truthy(scenario.rise_meters) /\ FLt(f1_0, scenario.rise_meters[1])
        THEN FAdd(m1, f0_15) ELSE m1

\* a slip: the EXTREME band opened above 0.85 instead of at 0.85
ScenarioSimulationModel_risk_level_le(risk_score) ==
  IF FLt(risk_score, f0_3) THEN LOW
  ELSE IF FLt(risk_score, f0_6) THEN MODERATE
  ELSE IF FLe(risk_score, f0_85) THEN HIGH
  ELSE EXTREME

\* the if-chain of ScenarioSimulationModel.simulate
ScenarioSimulationModel_risk_level(risk_score) ==
  IF FLt(risk_score, f0_3) THEN LOW
  ELSE IF FLt(risk_score, f0_6) THEN MODERATE
  ELSE IF FLt(risk_score, f0_85) THEN HIGH
  ELSE EXTREME

\* a slip: the product without its clamp
ScenarioSimulationModel_risk_score_unclamped(baseline_risk, multiplier) ==
  FMul(baseline_risk, multiplier)

\* min(baseline_risk * multiplier, 1.0)
ScenarioSimulationModel_risk_score(baseline_risk, multiplier) ==
  PyMin(FMul(baseline_risk, multiplier), f1_0)

\* the local variables of a ScenarioSimulationModel.simulate call at its return
\* the statements of simulate after risk_score is assigned; l holds the
\* arguments and the multiplier
ScenarioSimulationModel_assess(l, risk_score) ==
  [scenario |-> l.scenario,
   baseline_risk |-> l.baseline_risk,
   multiplier |-> l.multiplier,
   risk_score |-> risk_score,
   risk_delta |-> FSub(risk_score, l.baseline_risk),
   risk_level |-> ScenarioSimulationModel_risk_level(risk_score)]

\* the statements of simulate after multiplier has its final value
ScenarioSimulationModel_apply(l) ==
  Strict2(ScenarioSimulationModel_assess, l,
          ScenarioSimulationModel_risk_score(l.baseline_risk, l.multiplier))

\* the local variables of a ScenarioSimulationModel.simulate call at its return
ScenarioSimulationModel_locals(baseline_risk, scenario) ==
  Strict1(ScenarioSimulationModel_apply,
          [scenario |-> scenario, baseline_risk |-> baseline_risk,
           multiplier |-> ScenarioSimulationModel_multiplier(scenario)])

\* the return statement of ScenarioSimulationModel.simulate, on the locals l
ScenarioSimulationModel_return(l) ==
  [scenario_type |-> l.scenario.type,
   risk_score |-> PyRound(l.risk_score, 2),
   risk_level |-> l.risk_level,
   risk_delta |-> PyRound(l.risk_delta, 2)]

ScenarioSimulationModel_simulate(baseline_risk, scenario) ==
  Strict1(ScenarioSimulationModel_return,
          ScenarioSimulationModel_locals(baseline_risk, scenario))

grid_sizes == ("low" :> 2) @@ ("medium" :> 4) @@ ("high" :> 8)

\* the if-chain of HeatmapGenerator.generate_grid
HeatmapGenerator_risk_level(risk_score) ==
  IF FLt(risk_score, f0_3) THEN LOW
  ELSE IF FLt(risk_score, f0_6) THEN MODERATE
  ELSE IF FLt(risk_score, f0_85) THEN HIGH
  ELSE EXTREME

\* the seed and the unrounded risk_score of cell (i, j)
HeatmapGenerator_seed(area_id, i, j) == (area_id + i * 10 + j) % 100
HeatmapGenerator_risk_score(area_id, i, j) ==
  FAdd(f0_2, Ratio(HeatmapGenerator_seed(area_id, i, j), 150))

\* a slip: the default grid of 2 instead of 4
HeatmapGenerator_locals_default2(area_id, hazard, layer, resolution) ==
  [area_id |-> area_id,
   grid_size |-> IF resolution \in DOMAIN grid_sizes THEN grid_sizes[resolution] ELSE 2,
   base_lon |-> f75_79,
   base_lat |-> f26_91,
   cell_size |-> f0_01]

\* the local variables of generate_grid that are set before its loops
HeatmapGenerator_locals(area_id, hazard, layer, resolution) ==
  [area_id |-> area_id,
   grid_size |-> IF resolution \in DOMAIN grid_sizes THEN grid_sizes[resolution] ELSE 4,
   base_lon |-> f75_79,
   base_lat |-> f26_91,
   cell_size |-> f0_01]

\* one pass of the loop body of generate_grid: the feature of cell (i, j)
HeatmapGenerator_feature(l, i, j) ==
  LET min_lon    == FAdd(l.base_lon, FMul(FromInt(i), l.cell_size))
      max_lon    == FAdd(l.base_lon, FMul(FromInt(i + 1), l.cell_size))
      min_lat    == FAdd(l.base_lat, FMul(FromInt(j), l.cell_size))
      max_lat    == FAdd(l.base_lat, FMul(FromInt(j + 1), l.cell_size))
      risk_score == HeatmapGenerator_risk_score(l.area_id, i, j)
  IN  [type |-> "Feature",
       geometry |->
         [type |-> "Polygon",
          coordinates |-> << << <<min_lon, min_lat>>, <<max_lon, min_lat>>,
                                <<max_lon, max_lat>>, <<min_lon, max_lat>>,
                                <<min_lon, min_lat>> >> >>],
       properties |->
         [risk_score |-> PyRound(risk_score, 2),
          risk_level |-> HeatmapGenerator_risk_level(risk_score)]]

\* a slip: the loops nested the other way round
HeatmapGenerator_loop_jmajor(l) ==
  [k \in 1..(l.grid_size * l.grid_size) |->
     HeatmapGenerator_feature(l, (k - 1) % l.grid_size, (k - 1) \div l.grid_size)]

\* for i in range(grid_size): for j in range(grid_size): features.append(...)
HeatmapGenerator_loop(l) ==
  [k \in 1..(l.grid_size * l.grid_size) |->
     HeatmapGenerator_feature(l, (k - 1) \div l.grid_size, (k - 1) % l.grid_size)]

HeatmapGenerator_generate_grid(area_id, hazard, layer, resolution) ==
  Strict1(HeatmapGenerator_loop,
          HeatmapGenerator_locals(area_id, hazard, layer, resolution))

\* a slip: seed / 400 for seed / 500
RoutingEngine_risk_score_400(seed) == FAdd(f0_1, Ratio(seed, 400))

\* the unrounded risk_score and the eta_minutes of a route
RoutingEngine_risk_score(seed) == FAdd(f0_1, Ratio(seed, 500))
RoutingEngine_eta_minutes(seed) == 10 + (seed \div 5)

\* a slip: the route number left out of the id
RoutingEngine_route_id_idx(idx, route_num) == "route_" \o ToString(idx)

\* f"route_{idx}_{route_num}"
RoutingEngine_route_id(idx, route_num) ==
  "route_" \o ToString(idx) \o "_" \o ToString(route_num)

\* one pass of the inner loop body of compute_safe_routes
RoutingEngine_route(area_id, idx, route_num, start_point) ==
  LET seed        == (area_id + idx * 10 + route_num) % 100
      risk_score  == RoutingEngine_risk_score(seed)
      eta_minutes == RoutingEngine_eta_minutes(seed)
      end_lon     == FAdd(FAdd(start_point.lon, f0_02),
                          FMul(FromInt(route_num), f0_01))
      end_lat     == FAdd(FAdd(start_point.lat, f0_02),
                          FMul(FromInt(route_num), f0_01))
  IN  [route_id |-> RoutingEngine_route_id(idx, route_num),
       risk_score |-> PyRound(risk_score, 2),
       eta_minutes |-> eta_minutes,
       geometry |->
         [type |-> "LineString",
          coordinates |-> << <<start_point.lon, start_point.lat>>,
                             <<FAdd(start_point.lon, f0_01),
                               FAdd(start_point.lat, f0_01)>>,
                             <<end_lon, end_lat>> >>]]

\* for idx, start_point in enumerate(start_points): for route_num in range(2)
RoutingEngine_compute_safe_routes(area_id, start_points) ==
  [k \in 1..(2 * Len(start_points)) |->
     RoutingEngine_route(area_id, (k - 1) \div 2, (k - 1) % 2,
                         start_points[((k - 1) \div 2) + 1])]

(***************************************************************************)
(* State.  The models are static methods without state of their own: a     *)
(* state of the system is the call in progress, if any.                    *)
(*   pc      "idle" (no call) or "done" (a call has computed its result)   *)
(*   req     the call: the model called and its arguments                  *)
(*   res     the value the call returns                                    *)
(*   locals  the call's local variables at its return statement            *)
(*   prev    an earlier call and its result, kept for comparison           *)
(***************************************************************************)
VARIABLES pc, req, res, locals, prev

(***************************************************************************)
(* Calls running at the same time, one per thread, each with its own frame *)
(* of local variables.                                                     *)
(*   frames  for each thread: pc ("idle", "loop", "done"), the call req,   *)
(*           its locals, the number k of loop passes made, the list        *)
(*           features (routes) built so far, the value res returned        *)
(***************************************************************************)
VARIABLES frames

(***************************************************************************)
(* The application around the models.                                      *)
(*   db    the database: the areas table (rows id, user_id; ids handed out *)
(*         by the sequence next_area_id), the prediction_history and       *)
(*         analytics_history tables in insertion order                     *)
(*   svc   the EWS service call in progress: the operation, its arguments  *)
(*         and the response it returns                                     *)
(*   http  the EWS request in progress: the endpoint, the token's subject, *)
(*         the request body and the HTTP status and body answered          *)
(*   tox   the predictive-toxicity tables (simulations, metrics) and the   *)
(*         service call in progress                                        *)
(***************************************************************************)
VARIABLES db, svc, http, tox

\* the state outside the single call in progress
rest == <<frames, db, svc, http, tox>>

vars == <<pc, req, res, locals, prev, rest>>

\* the state outside the threads' frames
notFrames == <<pc, req, res, locals, prev, db, svc, http, tox>>

\* the state outside the database and the service call
notServices == <<pc, req, res, locals, prev, frames, http, tox>>

\* the state outside the database and the request
notRouter == <<pc, req, res, locals, prev, frames, svc, tox>>

\* the state outside the predictive-toxicity module
notToxicity == <<pc, req, res, locals, prev, frames, db, svc, http>>

NumThreads == 2
Threads == 1..NumThreads

IdleFrame ==
  [pc |-> "idle", req |-> [op |-> "none"], locals |-> [none |-> TRUE], k |-> 0,
   features |-> <<>>, res |-> [none |-> TRUE]]

NoReq == [op |-> "none"]
NoRes == [none |-> TRUE]
NoLocals == [none |-> TRUE]
NoCall == [op |-> "none"]

EmptyDb ==
  [areas |-> {}, next_area_id |-> 1, soil_measurements |-> <<>>,
   prediction_history |-> <<>>,
   analytics_history |-> <<>>]
NoSvc == [pc |-> "idle"]
NoHttp == [pc |-> "idle"]
EmptyTox ==
  [simulations |-> {}, metrics |-> {}, zones |-> {}, pc |-> "idle",
   call |-> [none |-> TRUE]]

Init ==
  /\ pc = "idle"
  /\ req = NoReq
  /\ res = NoRes
  /\ locals = NoLocals
  /\ prev = NoCall
  /\ frames = [t \in Threads |-> IdleFrame]
  /\ db = EmptyDb
  /\ svc = NoSvc
  /\ http = NoHttp
  /\ tox = EmptyTox

\* StabilityModel.predict(area_id, time_range_from, time_range_to)
StabilityPredict(area_id, time_range_from, time_range_to) ==
  /\ pc = "idle"
  /\ pc' = "done"
  /\ req' = [op |-> "StabilityModel.predict", area_id |-> area_id,
             time_range_from |-> time_range_from, time_range_to |-> time_range_to]
  /\ res' = StabilityModel_predict(area_id, time_range_from, time_range_to)
  /\ locals' = [seed |-> StabilityModel_seed(area_id)]
  /\ UNCHANGED prev
  /\ UNCHANGED rest

\* HazardPredictionModel.predict(area_id, hazard, horizon), the clock reading now
HazardPredict(area_id, hazard, horizon, now) ==
  /\ pc = "idle"
  /\ pc' = "done"
  /\ req' = [op |-> "HazardPredictionModel.predict", area_id |-> area_id,
             hazard |-> hazard, horizon |-> horizon]
  /\ locals' = HazardPredictionModel_locals(area_id, hazard, horizon, now)
  /\ res' = HazardPredictionModel_return(locals')
  /\ UNCHANGED prev
  /\ UNCHANGED rest

\* ScenarioSimulationModel.simulate(baseline_risk, scenario)
Simulate(baseline_risk, scenario) ==
  /\ pc = "idle"
  /\ pc' = "done"
  /\ req' = [op |-> "ScenarioSimulationModel.simulate",
             baseline_risk |-> baseline_risk, scenario |-> scenario]
  /\ locals' = ScenarioSimulationModel_locals(baseline_risk, scenario)
  /\ res' = ScenarioSimulationModel_return(locals')
  /\ UNCHANGED prev
  /\ UNCHANGED rest

\* HeatmapGenerator.generate_grid(area_id, hazard, layer, resolution)
GenerateGrid(area_id, hazard, layer, resolution) ==
  /\ pc = "idle"
  /\ pc' = "done"
  /\ req' = [op |-> "HeatmapGenerator.generate_grid", area_id |-> area_id,
             hazard |-> hazard, layer |-> layer, resolution |-> resolution]
  /\ locals' = HeatmapGenerator_locals(area_id, hazard, layer, resolution)
  /\ res' = HeatmapGenerator_loop(locals')
  /\ UNCHANGED prev
  /\ UNCHANGED rest

\* RoutingEngine.compute_safe_routes(area_id, start_points)
ComputeSafeRoutes(area_id, start_points) ==
  /\ pc = "idle"
  /\ pc' = "done"
  /\ req' = [op |-> "RoutingEngine.compute_safe_routes", area_id |-> area_id,
             start_points |-> start_points]
  /\ res' = RoutingEngine_compute_safe_routes(area_id, start_points)
  /\ locals' = NoLocals
  /\ UNCHANGED prev
  /\ UNCHANGED rest

\* the caller takes the result; nothing of the call remains
Return ==
  /\ pc = "done"
  /\ pc' = "idle"
  /\ req' = NoReq
  /\ res' = NoRes
  /\ locals' = NoLocals
  /\ UNCHANGED prev
  /\ UNCHANGED rest

Next ==
  \/ \E area_id \in AreaIds, f \in Times, t \in Times : StabilityPredict(area_id, f, t)
  \/ \E area_id \in AreaIds, hazard \in HazardType, horizon \in Horizons, now \in Times :
       HazardPredict(area_id, hazard, horizon, now)
  \/ \E baseline_risk \in BaselineRisks, scenario \in ScenarioInputs :
       Simulate(baseline_risk, scenario)
  \/ \E area_id \in AreaIds, resolution \in Resolutions :
       GenerateGrid(area_id, "landslide", "landslide_risk", resolution)
  \/ \E area_id \in AreaIds, start_points \in StartPointLists :
       ComputeSafeRoutes(area_id, start_points)
  \/ Return

Spec == Init /\ [][Next]_vars

\* one model alone
NextStability ==
  \/ \E area_id \in AreaIds, f \in Times, t \in Times : StabilityPredict(area_id, f, t)
  \/ Return

NextHazard ==
  \/ \E area_id \in AreaIds, hazard \in HazardType, horizon \in Horizons, now \in Times :
       HazardPredict(area_id, hazard, horizon, now)
  \/ Return

NextScenario ==
  \/ \E baseline_risk \in BaselineRisks, scenario \in ScenarioInputs :
       Simulate(baseline_risk, scenario)
  \/ Return

NextHeatmap ==
  \/ \E area_id \in AreaIds, resolution \in Resolutions :
       GenerateGrid(area_id, "landslide", "landslide_risk", resolution)
  \/ Return

NextRouting ==
  \/ \E area_id \in AreaIds, start_points \in StartPointLists :
       ComputeSafeRoutes(area_id, start_points)
  \/ Return

SpecStability == Init /\ [][NextStability]_vars
SpecHazard == Init /\ [][NextHazard]_vars
SpecScenario == Init /\ [][NextScenario]_vars
SpecHeatmap == Init /\ [][NextHeatmap]_vars
SpecRouting == Init /\ [][NextRouting]_vars

(***************************************************************************)
(* Two StabilityModel.predict calls in a row, the second for the area_id   *)
(* of the first plus 100: the first call and its result are kept in prev.  *)
(***************************************************************************)
Remember ==
  /\ pc = "done"
  /\ prev.op = "none"
  /\ prev' = [op |-> req.op, req |-> req, res |-> res, locals |-> locals]
  /\ UNCHANGED rest
  /\ pc' = "idle"
  /\ req' = NoReq
  /\ res' = NoRes
  /\ locals' = NoLocals

NextStabilityPair ==
  \/ \E area_id \in AreaIds, f \in Times, t \in Times :
       /\ prev.op = "none"
       /\ StabilityPredict(area_id, f, t)
  \/ \E f \in Times, t \in Times :
       /\ prev.op # "none"
       /\ StabilityPredict(prev.req.area_id + 100, f, t)
  \/ Remember

SpecStabilityPair == Init /\ [][NextStabilityPair]_vars

(***************************************************************************)
(* The claims.                                                             *)
(***************************************************************************)
\* the decimals the claims name
f0_10 == Dec(10, 2)
f0_30 == Dec(30, 2)
f0_33 == Dec(33, 2)
f0_59 == Dec(59, 2)
f0_60 == Dec(60, 2)
f1_55 == Dec(155, 2)

Done(op) == pc = "done" /\ req.op = op

\* RiskClassifier of the specification: the level of a score, each band
\* closed at its lower end
InBand(score, level) ==
  /\ FLt(score, f0_30) => level = LOW
  /\ (FLe(f0_30, score) /\ FLt(score, f0_60)) => level = MODERATE
  /\ (FLe(f0_60, score) /\ FLt(score, f0_85)) => level = HIGH
  /\ FLe(f0_85, score) => level = EXTREME

Classify(score) == CHOOSE level \in RiskLevel : InBand(score, level)

\* the value of the decimal d * 10^places as an integer, d a double
Units(d, places) == IF d.neg THEN 0 - ScaledInt(d, 10^places) ELSE ScaledInt(d, 10^places)

\* C1: every cell generate_grid returns has risk_score = round(0.2 + seed/150, 2),
\* seed = (area_id + 10 i + j) mod 100, and the risk_level that classifies that
\* returned risk_score.
C1_HeatmapLevelClassifiesReturnedScore ==
  Done("HeatmapGenerator.generate_grid") =>
    \A k \in 1..Len(res) :
      LET i     == (k - 1) \div locals.grid_size
          j     == (k - 1) % locals.grid_size
          seed  == (req.area_id + 10 * i + j) % 100
      IN  /\ res[k].properties.risk_score = PyRound(FAdd(f0_2, Ratio(seed, 150)), 2)
          /\ res[k].properties.risk_level = Classify(res[k].properties.risk_score)

\* C2: the risk_level simulate returns is the classification of the risk_score
\* the same call returns.
C2_ScenarioLevelClassifiesReturnedScore ==
  Done("ScenarioSimulationModel.simulate") =>
    res.risk_level = Classify(res.risk_score)

\* C3: for every seed, the risk_level HazardPredictionModel.predict returns is the
\* classification of the risk_score it returns, round(0.5 + seed/200, 2).
C3_HazardLevelClassifiesReturnedScore ==
  Done("HazardPredictionModel.predict") =>
    /\ res.risk_score = PyRound(FAdd(f0_5, Ratio(locals.seed, 200)), 2)
    /\ res.risk_level = Classify(res.risk_score)

\* C3 witness: seed 19, whose unrounded score is the double next below 0.595,
\* within 0.005 of the threshold 0.60: 0.59 and moderate are returned.
C3_Witness ==
  /\ Done("HazardPredictionModel.predict")
  /\ locals.seed = 19
  /\ res.risk_score = f0_59
  /\ res.risk_level = MODERATE

\* C4 as stated: every route has risk_score in [0.10, 0.30) and eta_minutes in
\* [10, 30).
C4_RouteScoreHalfOpen ==
  Done("RoutingEngine.compute_safe_routes") =>
    \A k \in 1..Len(res) :
      /\ FLe(f0_10, res[k].risk_score)
      /\ FLt(res[k].risk_score, f0_30)
      /\ 10 <= res[k].eta_minutes
      /\ res[k].eta_minutes < 30

\* C4 amended: every route has risk_score in the closed interval [0.10, 0.30]
\* and eta_minutes in [10, 30).
C4_RouteScoreClosed ==
  Done("RoutingEngine.compute_safe_routes") =>
    \A k \in 1..Len(res) :
      /\ FLe(f0_10, res[k].risk_score)
      /\ FLe(res[k].risk_score, f0_30)
      /\ 10 <= res[k].eta_minutes
      /\ res[k].eta_minutes < 30

\* C4 witness: a route of seed 98 or 99, whose risk_score is 0.30 and whose
\* eta_minutes is 29.
C4_Witness ==
  /\ Done("RoutingEngine.compute_safe_routes")
  /\ \E k \in 1..Len(res) :
       /\ res[k].risk_score = f0_30
       /\ res[k].eta_minutes = 29

\* the scores a state holds: those a call computed and those it returns
Scores ==
  IF Done("HazardPredictionModel.predict") THEN {locals.risk_score, res.risk_score}
  ELSE IF Done("ScenarioSimulationModel.simulate")
    THEN {req.baseline_risk, locals.risk_score, res.risk_score}
  ELSE IF Done("HeatmapGenerator.generate_grid")
    THEN {res[k].properties.risk_score : k \in 1..Len(res)}
           \cup {HeatmapGenerator_risk_score(req.area_id, i, j) :
                   i \in 0..(locals.grid_size - 1), j \in 0..(locals.grid_size - 1)}
  ELSE IF Done("RoutingEngine.compute_safe_routes")
    THEN {res[k].risk_score : k \in 1..Len(res)}
  ELSE {}

\* C5: the if-chains of predict, simulate and generate_grid give every score
\* the same level, the one of the band table with each band closed at its
\* lower end.
C5_OneClassification ==
  \A score \in Scores :
    /\ InBand(score, HazardPredictionModel_risk_level(score))
    /\ ScenarioSimulationModel_risk_level(score) = HazardPredictionModel_risk_level(score)
    /\ HeatmapGenerator_risk_level(score) = HazardPredictionModel_risk_level(score)

\* C5 witness: a simulate call whose unrounded score is below 0.85 and whose
\* returned score is 0.85 itself, which all three chains put in the upper band.
C5_Witness ==
  /\ Done("ScenarioSimulationModel.simulate")
  /\ FLt(locals.risk_score, f0_85)
  /\ res.risk_score = f0_85
  /\ HazardPredictionModel_risk_level(res.risk_score) = EXTREME
  /\ ScenarioSimulationModel_risk_level(res.risk_score) = EXTREME
  /\ HeatmapGenerator_risk_level(res.risk_score) = EXTREME

\* C6: simulate never returns a risk_score above 1.0.
C6_ScoreAtMostOne ==
  Done("ScenarioSimulationModel.simulate") => FLe(res.risk_score, FromInt(1))

\* C6 witness: the product baseline_risk * multiplier exceeds 1.0 (baseline 1.0,
\* multiplier 1.55) and 1.0 is returned.
C6_Witness ==
  /\ Done("ScenarioSimulationModel.simulate")
  /\ req.baseline_risk = FromInt(1)
  /\ locals.multiplier = f1_55
  /\ FLt(FromInt(1), FMul(req.baseline_risk, locals.multiplier))
  /\ res.risk_score = FromInt(1)

\* the base values of the claim
C7_Base(type) ==
  CASE type = "rainfall" -> f1_3
    [] type = "soil_saturation" -> f1_2
    [] type = "groundwater_rise" -> f1_25
    [] type = "load_increase" -> f1_15

C7_Present(o) == o # None
C7_RainBonus(scenario) ==
  C7_Present(scenario.total_mm) /\ FLt(FromInt(200), scenario.total_mm[1])
C7_RiseBonus(scenario) ==
  C7_Present(scenario.rise_meters) /\ FLt(FromInt(1), scenario.rise_meters[1])

\* C7: for the four scenario types the multiplier is the base value of the type,
\* plus 0.1 exactly when total_mm is present and above 200, plus 0.15 exactly
\* when rise_meters is present and above 1.0.
C7_Multiplier ==
  (Done("ScenarioSimulationModel.simulate") /\ req.scenario.type \in SimulationType) =>
    LET base == C7_Base(req.scenario.type)
        rain == IF C7_RainBonus(req.scenario) THEN FAdd(base, f0_1) ELSE base
    IN  locals.multiplier =
          IF C7_RiseBonus(req.scenario) THEN FAdd(rain, f0_15) ELSE rain

\* C7 witness: a rainfall scenario with both bonuses, multiplier 1.55.
C7_Witness ==
  /\ Done("ScenarioSimulationModel.simulate")
  /\ req.scenario.type = "rainfall"
  /\ C7_RainBonus(req.scenario)
  /\ C7_RiseBonus(req.scenario)
  /\ locals.multiplier = f1_55

\* C8: the risk_delta simulate returns is the risk_score it returns minus
\* baseline_risk (all three are decimals of two places: compared in hundredths).
C8_DeltaIsScoreMinusBaseline ==
  Done("ScenarioSimulationModel.simulate") =>
    Units(res.risk_delta, 2) = Units(res.risk_score, 2) - Units(req.baseline_risk, 2)

\* |a - b| <= d
C9_Near(a, b, d) == a - b <= d /\ b - a <= d

\* C9: with seed = area_id mod 100, predict returns round(0.3 + seed/200, 2),
\* round(0.85 + seed/1000, 2), round(0.4 + seed/250, 2), round(2.0 + seed/25, 1)
\* and 300 + 2 seed: each rounded field is the double of a decimal that lies
\* within half a unit of its last place of the exact value, and area_id 0 yields
\* 0.3, 0.85, 0.4, 2.0 and 300.
C9_StabilityFormulas ==
  Done("StabilityModel.predict") =>
    LET seed == req.area_id % 100
        si   == Units(res.stability_index, 2)
        co   == Units(res.confidence, 2)
        sm   == Units(res.soil_moisture_avg, 2)
        di   == Units(res.displacement_trend_mm_per_month, 1)
    IN  /\ res.stability_index = PyRound(FAdd(f0_3, Ratio(seed, 200)), 2)
        /\ res.confidence = PyRound(FAdd(f0_85, Ratio(seed, 1000)), 2)
        /\ res.soil_moisture_avg = PyRound(FAdd(f0_4, Ratio(seed, 250)), 2)
        /\ res.displacement_trend_mm_per_month
             = PyRound(FAdd(FromInt(2), Ratio(seed, 25)), 1)
        /\ res.rainfall_accumulation_mm = 300 + 2 * seed
        /\ res.stability_index = Dec(si, 2) /\ C9_Near(2 * si, 60 + seed, 1)
        /\ res.confidence = Dec(co, 2) /\ C9_Near(10 * co, 850 + seed, 5)
        /\ res.soil_moisture_avg = Dec(sm, 2) /\ C9_Near(5 * sm, 2 * (100 + seed), 2)
        /\ res.displacement_trend_mm_per_month = Dec(di, 1)
        /\ C9_Near(5 * di, 2 * (50 + seed), 2)
        /\ req.area_id = 0 =>
             /\ res.stability_index = f0_3
             /\ res.confidence = f0_85
             /\ res.soil_moisture_avg = f0_4
             /\ res.displacement_trend_mm_per_month = FromInt(2)
             /\ res.rainfall_accumulation_mm = 300

\* C9 witness: area_id 105, seed 5: 0.3 + 5/200 is the double next above 0.325
\* and rounds to 0.33; rainfall is 310.
C9_Witness ==
  /\ Done("StabilityModel.predict")
  /\ req.area_id = 105
  /\ res.stability_index = f0_33
  /\ res.rainfall_accumulation_mm = 310

\* C10: predict(k, from1, to1) and predict(k + 100, from2, to2) return the same
\* values in all five fields.
C10_SeedPeriod100 ==
  (Done("StabilityModel.predict") /\ prev.op = "StabilityModel.predict"
     /\ req.area_id = prev.req.area_id + 100) =>
    /\ res.stability_index = prev.res.stability_index
    /\ res.confidence = prev.res.confidence
    /\ res.soil_moisture_avg = prev.res.soil_moisture_avg
    /\ res.displacement_trend_mm_per_month = prev.res.displacement_trend_mm_per_month
    /\ res.rainfall_accumulation_mm = prev.res.rainfall_accumulation_mm

\* C10 witness: calls for area_id 7 and 107 with different time ranges and the
\* same result.
C10_Witness ==
  /\ Done("StabilityModel.predict")
  /\ prev.op = "StabilityModel.predict"
  /\ prev.req.area_id = 7
  /\ req.area_id = 107
  /\ req.time_range_from # prev.req.time_range_from
  /\ req.time_range_to # prev.req.time_range_to
  /\ res = prev.res

\* x in [0, 1]
InUnit(x) == FLe(Zero, x) /\ FLe(x, FromInt(1))

\* C11: StabilityModel.predict returns stability_index, confidence and
\* soil_moisture_avg in [0, 1] and displacement_trend_mm_per_month and
\* rainfall_accumulation_mm >= 0; HazardPredictionModel.predict returns
\* risk_score and confidence in [0, 1] and a risk_level among low, moderate,
\* high, extreme.
C11_OutputsInRange ==
  /\ Done("StabilityModel.predict") =>
       /\ InUnit(res.stability_index)
       /\ InUnit(res.confidence)
       /\ InUnit(res.soil_moisture_avg)
       /\ FLe(Zero, res.displacement_trend_mm_per_month)
       /\ res.rainfall_accumulation_mm >= 0
  /\ Done("HazardPredictionModel.predict") =>
       /\ InUnit(res.risk_score)
       /\ InUnit(res.confidence)
       /\ res.risk_level \in {"low", "moderate", "high", "extreme"}

\* C11 witness: a predict call of seed 99, whose confidence 0.80 + 99/500 and
\* whose risk_score 0.5 + 99/200 are the largest: 1.0 is returned as confidence.
C11_Witness ==
  /\ Done("HazardPredictionModel.predict")
  /\ locals.seed = 99
  /\ res.confidence = FromInt(1)
  /\ FLe(Dec(99, 2), res.risk_score)

(***************************************************************************)
(* Two HazardPredictionModel.predict calls in a row with the same          *)
(* arguments, each reading the clock on its own.                           *)
(***************************************************************************)
NextHazardPair ==
  \/ \E area_id \in AreaIds, hazard \in HazardType, horizon \in Horizons, now \in Times :
       /\ prev.op = "none"
       /\ HazardPredict(area_id, hazard, horizon, now)
  \/ \E now \in Times :
       /\ prev.op # "none"
       /\ HazardPredict(prev.req.area_id, prev.req.hazard, prev.req.horizon, now)
  \/ Remember

SpecHazardPair == Init /\ [][NextHazardPair]_vars

\* a second predict call with the arguments of the remembered first one
SecondHazardCall ==
  /\ Done("HazardPredictionModel.predict")
  /\ prev.op = "HazardPredictionModel.predict"
  /\ req = prev.req

\* C12: two predict calls with the same (area_id, hazard, horizon) at two clock
\* values return the same risk_score, confidence and risk_level, and their
\* expected_window_from and expected_window_to differ by exactly the difference
\* of the two clock values (so they differ when the clock values do).
C12_OnlyWindowFollowsClock ==
  SecondHazardCall =>
    /\ res.risk_score = prev.res.risk_score
    /\ res.confidence = prev.res.confidence
    /\ res.risk_level = prev.res.risk_level
    /\ res.expected_window_from - prev.res.expected_window_from
         = locals.now - prev.locals.now
    /\ res.expected_window_to - prev.res.expected_window_to
         = locals.now - prev.locals.now

\* C12 witness: the second call reads a later clock: same score, confidence
\* and level, both window ends later.
C12_Witness ==
  /\ SecondHazardCall
  /\ locals.now > prev.locals.now
  /\ res.risk_score = prev.res.risk_score
  /\ res.confidence = prev.res.confidence
  /\ res.risk_level = prev.res.risk_level
  /\ res.expected_window_from > prev.res.expected_window_from
  /\ res.expected_window_to > prev.res.expected_window_to

\* the hours of the claim for the four horizons
C13_Hours(horizon) ==
  CASE horizon = "6h" -> 6
    [] horizon = "24h" -> 24
    [] horizon = "72h" -> 72
    [] horizon = "7d" -> 168

\* C13: for the horizons 6h, 24h, 72h, 7d predict returns expected_window_from
\* = now + floor(hours/2) and expected_window_to = now + hours for the one
\* clock value now it read, hours = 6, 24, 72, 168; so from <= to and the
\* window length is hours - floor(hours/2).
C13_ExpectedWindow ==
  (Done("HazardPredictionModel.predict") /\ req.horizon \in TimeHorizon) =>
    LET hours == C13_Hours(req.horizon)
    IN  /\ res.expected_window_from = locals.now + (hours \div 2)
        /\ res.expected_window_to = locals.now + hours
        /\ res.expected_window_from <= res.expected_window_to
        /\ res.expected_window_to - res.expected_window_from = hours - (hours \div 2)

\* C13 witness: horizon 7d at clock value 1: the window is 85 .. 169.
C13_Witness ==
  /\ Done("HazardPredictionModel.predict")
  /\ req.horizon = "7d"
  /\ locals.now = 1
  /\ res.expected_window_from = 85
  /\ res.expected_window_to = 169

C15_Side(resolution) ==
  CASE resolution = "low" -> 2
    [] resolution = "medium" -> 4
    [] resolution = "high" -> 8

\* the corner base + n * 0.01 of a cell
C15_Edge(base, n) == FAdd(base, FMul(FromInt(n), f0_01))

\* C15: generate_grid returns side * side cells (4 for low, 16 for medium, 64
\* for high), the cell of (i, j) at place i * side + j, and the ring of every
\* cell has the 5 points (min_lon, min_lat), (max_lon, min_lat),
\* (max_lon, max_lat), (min_lon, max_lat), (min_lon, min_lat), first = last.
C15_GridCellsAndRings ==
  (Done("HeatmapGenerator.generate_grid") /\ req.resolution \in HeatmapResolution) =>
    LET side == C15_Side(req.resolution)
    IN  /\ Len(res) = side * side
        /\ \A i \in 0..(side - 1), j \in 0..(side - 1) :
             LET cell    == res[i * side + j + 1]
                 ring    == cell.geometry.coordinates[1]
                 min_lon == C15_Edge(f75_79, i)
                 max_lon == C15_Edge(f75_79, i + 1)
                 min_lat == C15_Edge(f26_91, j)
                 max_lat == C15_Edge(f26_91, j + 1)
             IN  /\ Len(cell.geometry.coordinates) = 1
                 /\ Len(ring) = 5
                 /\ ring = << <<min_lon, min_lat>>, <<max_lon, min_lat>>,
                              <<max_lon, max_lat>>, <<min_lon, max_lat>>,
                              <<min_lon, min_lat>> >>
                 /\ ring[1] = ring[5]
                 /\ cell.properties.risk_score
                      = PyRound(FAdd(f0_2, Ratio((req.area_id + 10 * i + j) % 100, 150)), 2)

\* C15 witness: the grid of resolution high has 64 cells; its second cell
\* (i = 0, j = 1) is in the column of the first and north of it, its ninth
\* (i = 1, j = 0) east of the first in its row.
C15_Witness ==
  /\ Done("HeatmapGenerator.generate_grid")
  /\ req.resolution = "high"
  /\ Len(res) = 64
  /\ res[2].geometry.coordinates[1][1][1] = res[1].geometry.coordinates[1][1][1]
  /\ FLt(res[1].geometry.coordinates[1][1][2], res[2].geometry.coordinates[1][1][2])
  /\ res[9].geometry.coordinates[1][1][2] = res[1].geometry.coordinates[1][1][2]
  /\ FLt(res[1].geometry.coordinates[1][1][1], res[9].geometry.coordinates[1][1][1])
  /\ res[64].geometry.coordinates[1][1] = res[64].geometry.coordinates[1][5]

\* the decimal digits, for the route ids the claim names
C16_Digit == <<"0", "1", "2", "3", "4", "5", "6", "7", "8", "9">>
C16_RouteId(idx, route_num) ==
  "route_" \o C16_Digit[idx + 1] \o "_" \o C16_Digit[route_num + 1]

\* C16: compute_safe_routes returns 2 * len(start_points) routes (none for an
\* empty list); the route of start point idx and route_num is at place
\* 2 * idx + route_num, starts at that start point and has the route_id
\* 'route_{idx}_{route_num}'; the route_ids of a result are pairwise distinct.
C16_RoutesCountOrderIds ==
  Done("RoutingEngine.compute_safe_routes") =>
    /\ Len(res) = 2 * Len(req.start_points)
    /\ Len(req.start_points) = 0 => res = <<>>
    /\ \A idx \in 0..(Len(req.start_points) - 1), route_num \in {0, 1} :
         LET route == res[2 * idx + route_num + 1]
         IN  /\ route.route_id = C16_RouteId(idx, route_num)
             /\ route.geometry.coordinates[1]
                  = <<req.start_points[idx + 1].lon, req.start_points[idx + 1].lat>>
             /\ route.eta_minutes = 10 + (((req.area_id + 10 * idx + route_num) % 100) \div 5)
    /\ \A k1, k2 \in 1..Len(res) : k1 # k2 => res[k1].route_id # res[k2].route_id

\* C16 witness: two different start points, four routes, the last one
\* 'route_1_1' from the second start point.
C16_Witness ==
  /\ Done("RoutingEngine.compute_safe_routes")
  /\ Len(req.start_points) = 2
  /\ req.start_points[1] # req.start_points[2]
  /\ Len(res) = 4
  /\ res[4].route_id = "route_1_1"
  /\ res[4].geometry.coordinates[1] = <<req.start_points[2].lon, req.start_points[2].lat>>

(***************************************************************************)
(* The models called from several threads at once.  StabilityModel,        *)
(* HazardPredictionModel and ScenarioSimulationModel run straight through  *)
(* on their own local variables; generate_grid and compute_safe_routes     *)
(* take one step per pass of their loops, and the steps of the threads     *)
(* interleave.                                                             *)
(***************************************************************************)
ThreadAreaIds == {5, 97}
ThreadStartPoints ==
  << [lat |-> f26_91, lon |-> f75_79], [lat |-> FromInt(90), lon |-> FromInt(180)] >>
ThreadScenario == [type |-> "rainfall", total_mm |-> Some(FromInt(201)), rise_meters |-> None]

\* a slip: one list of features shared by all calls, as a class attribute is
FrameFeatures_shared(fr, t) == fr[1].features

\* features = [] / routes = []: the list a call appends to is its own local
FrameFeatures(fr, t) == fr[t].features

\* a call without a loop, from its first statement to its return
ThreadCallStraight(t, r, l, result) ==
  /\ frames[t].pc = "idle"
  /\ frames' = [frames EXCEPT ![t] =
                  [pc |-> "done", req |-> r, locals |-> l, k |-> 0,
                   features |-> <<>>, res |-> result]]
  /\ UNCHANGED notFrames

ThreadStabilityPredict(t, area_id, time_range_from, time_range_to) ==
  ThreadCallStraight(t,
    [op |-> "StabilityModel.predict", area_id |-> area_id,
     time_range_from |-> time_range_from, time_range_to |-> time_range_to],
    [seed |-> StabilityModel_seed(area_id)],
    StabilityModel_predict(area_id, time_range_from, time_range_to))

ThreadHazardPredict(t, area_id, hazard, horizon, now) ==
  ThreadCallStraight(t,
    [op |-> "HazardPredictionModel.predict", area_id |-> area_id,
     hazard |-> hazard, horizon |-> horizon],
    HazardPredictionModel_locals(area_id, hazard, horizon, now),
    HazardPredictionModel_predict(area_id, hazard, horizon, now))

ThreadSimulate(t, baseline_risk, scenario) ==
  ThreadCallStraight(t,
    [op |-> "ScenarioSimulationModel.simulate",
     baseline_risk |-> baseline_risk, scenario |-> scenario],
    ScenarioSimulationModel_locals(baseline_risk, scenario),
    ScenarioSimulationModel_simulate(baseline_risk, scenario))

\* generate_grid up to its loops: grid_size, features = [], the base point
ThreadGenerateGridEnter(t, area_id, hazard, layer, resolution) ==
  /\ frames[t].pc = "idle"
  /\ frames' = [frames EXCEPT ![t] =
                  [pc |-> "loop",
                   req |-> [op |-> "HeatmapGenerator.generate_grid", area_id |-> area_id,
                            hazard |-> hazard, layer |-> layer, resolution |-> resolution],
                   locals |-> HeatmapGenerator_locals(area_id, hazard, layer, resolution),
                   k |-> 0, features |-> <<>>, res |-> [none |-> TRUE]]]
  /\ UNCHANGED notFrames

\* one pass of the inner loop of generate_grid: features.append(feature)
ThreadGenerateGridStep(t) ==
  LET f == frames[t]
      n == f.locals.grid_size
  IN  /\ f.pc = "loop"
      /\ f.req.op = "HeatmapGenerator.generate_grid"
      /\ f.k < n * n
      /\ frames' = [frames EXCEPT ![t].k = f.k + 1,
                                  ![t].features =
                                    Append(FrameFeatures(frames, t),
                                           HeatmapGenerator_feature(f.locals, f.k \div n, f.k % n))]
      /\ UNCHANGED notFrames

\* compute_safe_routes up to its loops: routes = []
ThreadComputeSafeRoutesEnter(t, area_id, start_points) ==
  /\ frames[t].pc = "idle"
  /\ frames' = [frames EXCEPT ![t] =
                  [pc |-> "loop",
                   req |-> [op |-> "RoutingEngine.compute_safe_routes", area_id |-> area_id,
                            start_points |-> start_points],
                   locals |-> [none |-> TRUE],
                   k |-> 0, features |-> <<>>, res |-> [none |-> TRUE]]]
  /\ UNCHANGED notFrames

\* one pass of the inner loop of compute_safe_routes: routes.append(route)
ThreadComputeSafeRoutesStep(t) ==
  LET f == frames[t]
  IN  /\ f.pc = "loop"
      /\ f.req.op = "RoutingEngine.compute_safe_routes"
      /\ f.k < 2 * Len(f.req.start_points)
      /\ frames' = [frames EXCEPT ![t].k = f.k + 1,
                                  ![t].features =
                                    Append(FrameFeatures(frames, t),
                                           RoutingEngine_route(f.req.area_id, f.k \div 2, f.k % 2,
                                                               f.req.start_points[(f.k \div 2) + 1]))]
      /\ UNCHANGED notFrames

\* the loops are over: return features / return routes
ThreadLoopReturn(t) ==
  LET f == frames[t]
  IN  /\ f.pc = "loop"
      /\ f.k = IF f.req.op = "HeatmapGenerator.generate_grid"
                 THEN f.locals.grid_size * f.locals.grid_size
                 ELSE 2 * Len(f.req.start_points)
      /\ frames' = [frames EXCEPT ![t].pc = "done", ![t].res = FrameFeatures(frames, t)]
      /\ UNCHANGED notFrames

\* the caller of thread t takes the result
ThreadReturn(t) ==
  /\ frames[t].pc = "done"
  /\ frames' = [frames EXCEPT ![t] = IdleFrame]
  /\ UNCHANGED notFrames

NextThreads ==
  \/ \E t \in Threads, area_id \in ThreadAreaIds :
       ThreadStabilityPredict(t, area_id, 0, MaxTime)
  \/ \E t \in Threads, area_id \in ThreadAreaIds, now \in Times :
       ThreadHazardPredict(t, area_id, "landslide", "24h", now)
  \/ \E t \in Threads, area_id \in ThreadAreaIds :
       ThreadSimulate(t, HazardPredictionModel_predict(area_id, "landslide", "24h", 0).risk_score,
                      ThreadScenario)
  \/ \E t \in Threads, area_id \in ThreadAreaIds :
       ThreadGenerateGridEnter(t, area_id, "landslide", "landslide_risk", "low")
  \/ \E t \in Threads : ThreadGenerateGridStep(t)
  \/ \E t \in Threads, area_id \in ThreadAreaIds :
       ThreadComputeSafeRoutesEnter(t, area_id, ThreadStartPoints)
  \/ \E t \in Threads : ThreadComputeSafeRoutesStep(t)
  \/ \E t \in Threads : ThreadLoopReturn(t)
  \/ \E t \in Threads : ThreadReturn(t)

SpecThreads == Init /\ [][NextThreads]_vars

\* every finished call holds the result of the same call run alone from the
\* initial state (predict with the clock value it read)
C17_ResultsAsAlone ==
  \A t \in Threads :
    frames[t].pc = "done" =>
      /\ frames[t].req.op = "StabilityModel.predict" =>
           frames[t].res = StabilityModel_predict(frames[t].req.area_id,
                                                  frames[t].req.time_range_from,
                                                  frames[t].req.time_range_to)
      /\ frames[t].req.op = "HazardPredictionModel.predict" =>
           frames[t].res = HazardPredictionModel_predict(frames[t].req.area_id,
                                                         frames[t].req.hazard,
                                                         frames[t].req.horizon,
                                                         frames[t].locals.now)
      /\ frames[t].req.op = "ScenarioSimulationModel.simulate" =>
           frames[t].res = ScenarioSimulationModel_simulate(frames[t].req.baseline_risk,
                                                            frames[t].req.scenario)
      /\ frames[t].req.op = "HeatmapGenerator.generate_grid" =>
           frames[t].res = HeatmapGenerator_generate_grid(frames[t].req.area_id,
                                                          frames[t].req.hazard,
                                                          frames[t].req.layer,
                                                          frames[t].req.resolution)
      /\ frames[t].req.op = "RoutingEngine.compute_safe_routes" =>
           frames[t].res = RoutingEngine_compute_safe_routes(frames[t].req.area_id,
                                                             frames[t].req.start_points)

\* a step of one thread leaves the frames of the others as they are, and
\* keeps the arguments of a call in progress and the result of a finished one
C17_NoInterference ==
  \A t \in Threads :
    /\ frames'[t] # frames[t] => \A u \in Threads \ {t} : frames'[u] = frames[u]
    /\ (frames[t].pc # "idle" /\ frames'[t].pc # "idle") => frames'[t].req = frames[t].req
    /\ (frames[t].pc = "done" /\ frames'[t].pc = "done") => frames'[t].res = frames[t].res

\* C17: the five models keep no state between calls: after any earlier calls
\* and under any interleaving of the loop steps of calls running at the same
\* time, each call returns the result it returns when run alone (predict up to
\* its clock reading), and no call changes the arguments or result of another.
C17_Stateless == []C17_ResultsAsAlone /\ [][C17_NoInterference]_vars

\* C17 witness: thread 2 has finished a heatmap while thread 1 is in the middle
\* of the loop of another one, for a different area.
C17_Witness ==
  /\ frames[2].pc = "done"
  /\ frames[2].req.op = "HeatmapGenerator.generate_grid"
  /\ Len(frames[2].res) = 4
  /\ frames[1].pc = "loop"
  /\ frames[1].req.op = "HeatmapGenerator.generate_grid"
  /\ frames[1].req.area_id # frames[2].req.area_id
  /\ frames[1].k = 2

(***************************************************************************)
(* The persistence layer (src/app/modules/ews/repository.py) and the EWS   *)
(* services (src/app/modules/ews/service.py), as functions from a database *)
(* value to the database value they leave and the response they return.    *)
(***************************************************************************)
MaxAreas == 2
MaxUsers == 2
MaxHistory == 2

UserIds == 1..MaxUsers
\* areas.id is a serial primary key: 1, 2, ... in order of creation
DbAreaIds == 1..MaxAreas
\* the service calls address the first two areas, at two clock readings
ServiceAreaIds == {1, 2}
ServiceTimes == {0, 1}
ServiceHazards == {"landslide"}
ServiceHorizons == {"24h"}
ServiceScenarioLists == {<<ThreadScenario>>}
ServiceStartPointLists == {<<ThreadStartPoints[1]>>}
Skips == {0, 1}
Limits == {1, 100}

NoResponse == [none |-> TRUE]

\* db.query(Area).filter(Area.id == area_id).first()
get_area_by_id(d, area_id) ==
  IF \E a \in d.areas : a.id = area_id
  THEN Some(CHOOSE a \in d.areas : a.id = area_id)
  ELSE None

\* db.query(Area).filter(Area.id == area_id, Area.user_id == user_id)
\*   .first() is not None
check_area_ownership(d, area_id, user_id) ==
  \E a \in d.areas : a.id = area_id /\ a.user_id = user_id

\* area_id = Column(Integer, ForeignKey("areas.id"), nullable=False): the
\* commit of a history row raises IntegrityError unless the area exists
ForeignKeyHolds(d, area_id) == \E a \in d.areas : a.id = area_id

\* a slip: the new row replaces the table instead of being added to it
save_prediction_replace(d, area_id, hazard, horizon, risk_score, risk_level, confidence, expected_window_from, expected_window_to, created_at) ==
  [d EXCEPT !.prediction_history =
     << [id |-> 1, area_id |-> area_id, hazard |-> hazard,
         horizon |-> horizon, risk_score |-> risk_score,
         risk_level |-> risk_level, confidence |-> confidence,
         expected_window_from |-> expected_window_from,
         expected_window_to |-> expected_window_to,
         created_at |-> created_at] >>]

\* repository.save_prediction: db.add, db.commit, db.refresh.  The row gets
\* the next id and created_at = now() of the database server.
save_prediction(d, area_id, hazard, horizon, risk_score, risk_level, confidence, expected_window_from, expected_window_to, created_at) ==
  [d EXCEPT !.prediction_history =
     Append(@, [id |-> Len(@) + 1, area_id |-> area_id, hazard |-> hazard,
                horizon |-> horizon, risk_score |-> risk_score,
                risk_level |-> risk_level, confidence |-> confidence,
                expected_window_from |-> expected_window_from,
                expected_window_to |-> expected_window_to,
                created_at |-> created_at])]

\* a slip: the ends of the time range stored in each other's column
save_analytics_swapped(d, area_id, result, time_range_from, time_range_to, created_at) ==
  [d EXCEPT !.analytics_history =
     Append(@, [id |-> Len(@) + 1, area_id |-> area_id,
                stability_index |-> result.stability_index,
                confidence |-> result.confidence,
                soil_moisture_avg |-> result.soil_moisture_avg,
                displacement_trend_mm_per_month |->
                  result.displacement_trend_mm_per_month,
                rainfall_accumulation_mm |->
                  FromInt(result.rainfall_accumulation_mm),
                time_range_from |-> time_range_to,
                time_range_to |-> time_range_from,
                created_at |-> created_at])]

\* repository.save_analytics: db.add, db.commit, db.refresh
save_analytics(d, area_id, result, time_range_from, time_range_to, created_at) ==
  [d EXCEPT !.analytics_history =
     Append(@, [id |-> Len(@) + 1, area_id |-> area_id,
                stability_index |-> result.stability_index,
                confidence |-> result.confidence,
                soil_moisture_avg |-> result.soil_moisture_avg,
                displacement_trend_mm_per_month |->
                  result.displacement_trend_mm_per_month,
                rainfall_accumulation_mm |->
                  FromInt(result.rainfall_accumulation_mm),
                time_range_from |-> time_range_from,
                time_range_to |-> time_range_to,
                created_at |-> created_at])]

\* the rows of a history table that belong to an area
RowsOfArea(history, area_id) ==
  {history[k] : k \in {n \in 1..Len(history) : history[n].area_id = area_id}}

\* .order_by(created_at.desc()): every order of the rows with created_at
\* not increasing; rows with equal created_at come in any order
OrderedByCreatedAtDesc(rows) ==
  {s \in [1..Cardinality(rows) -> rows] :
     /\ \A a, b \in 1..Cardinality(rows) : a # b => s[a] # s[b]
     /\ \A a, b \in 1..Cardinality(rows) :
          a < b => s[a].created_at >= s[b].created_at}

\* .offset(skip).limit(limit).all()
OffsetLimit(s, skip, limit) ==
  SubSeq(s, skip + 1, IF skip + limit < Len(s) THEN skip + limit ELSE Len(s))

\* repository.get_prediction_history: the pages the query can return
get_prediction_history(d, area_id, skip, limit) ==
  {OffsetLimit(s, skip, limit) :
     s \in OrderedByCreatedAtDesc(RowsOfArea(d.prediction_history, area_id))}

\* a slip: the count taken over the whole table
get_prediction_history_count_all(d, area_id) == Len(d.prediction_history)

\* repository.get_prediction_history_count
get_prediction_history_count(d, area_id) ==
  Cardinality(RowsOfArea(d.prediction_history, area_id))

\* AnalyticsService.compute_analytics
AnalyticsService_compute_analytics(d, area_id, time_range_from, time_range_to, created_at) ==
  LET rest_of_body(result) ==
        IF ~ForeignKeyHolds(d, area_id)
        THEN [db |-> d, raised |-> "IntegrityError", response |-> NoResponse]
        ELSE [db |-> save_analytics(d, area_id, result, time_range_from,
                                    time_range_to, created_at),
              raised |-> "",
              response |->
                [stability_index |-> result.stability_index,
                 confidence |-> result.confidence,
                 metrics |->
                   [soil_moisture_avg |-> result.soil_moisture_avg,
                    displacement_trend_mm_per_month |->
                      result.displacement_trend_mm_per_month,
                    rainfall_accumulation_mm |->
                      FromInt(result.rainfall_accumulation_mm)]]]
  IN  Strict1(rest_of_body,
              StabilityModel_predict(area_id, time_range_from, time_range_to))

\* PredictionService.predict_hazard
PredictionService_predict_hazard(d, area_id, hazard, horizon, now) ==
  LET rest_of_body(result) ==
        IF ~ForeignKeyHolds(d, area_id)
        THEN [db |-> d, raised |-> "IntegrityError", response |-> NoResponse]
        ELSE [db |-> save_prediction(d, area_id, hazard, horizon,
                                     result.risk_score, result.risk_level,
                                     result.confidence,
                                     result.expected_window_from,
                                     result.expected_window_to, now),
              raised |-> "",
              response |->
                [hazard |-> hazard,
                 risk_score |-> result.risk_score,
                 risk_level |-> result.risk_level,
                 confidence |-> result.confidence,
                 expected_window |->
                   [from_time |-> result.expected_window_from,
                    to_time |-> result.expected_window_to]]]
  IN  Strict1(rest_of_body,
              HazardPredictionModel_predict(area_id, hazard, horizon, now))

\* PredictionService.get_prediction_history, for one page of the query
PredictionService_get_prediction_history(d, area_id, predictions) ==
  [db |-> d, raised |-> "",
   response |-> [predictions |-> predictions,
                 total |-> get_prediction_history_count(d, area_id)]]

\* ScenarioService.simulate_scenarios
ScenarioService_simulate_scenarios(d, area_id, hazard, scenarios, now) ==
  LET rest_of_body(baseline_risk) ==
        [db |-> d, raised |-> "",
         response |->
           [baseline_risk |-> baseline_risk,
            results |->
              [k \in 1..Len(scenarios) |->
                 ScenarioSimulationModel_simulate(baseline_risk,
                                                  scenarios[k])]]]
  IN  Strict1(rest_of_body,
              HazardPredictionModel_predict(area_id, hazard, "24h", now)
                .risk_score)

\* HeatmapService.generate_heatmap
HeatmapService_generate_heatmap(d, area_id, hazard, layer, resolution) ==
  [db |-> d, raised |-> "",
   response |->
     [type |-> "FeatureCollection",
      features |->
        HeatmapGenerator_generate_grid(area_id, hazard, layer, resolution)]]

\* EvacuationService.compute_evacuation_routes
EvacuationService_compute_evacuation_routes(d, area_id, start_points) ==
  [db |-> d, raised |-> "",
   response |->
     [routes |-> RoutingEngine_compute_safe_routes(area_id, start_points)]]

(***************************************************************************)
(* The services called one after another on one database.  MaxAreas bounds *)
(* the areas ever created, MaxHistory the rows of the two history tables   *)
(* together.                                                               *)
(***************************************************************************)
HistoryRows(d) == Len(d.prediction_history) + Len(d.analytics_history)

\* agri_logic repository.create_area: db.add, db.commit, db.refresh
create_area(d, user_id) ==
  [d EXCEPT !.areas = @ \cup {[id |-> d.next_area_id, user_id |-> user_id]},
            !.next_area_id = @ + 1]

\* AreaService.create_area(db, area, user_id)
CreateArea(user_id) ==
  /\ db.next_area_id <= MaxAreas
  /\ db' = create_area(db, user_id)
  /\ UNCHANGED <<pc, req, res, locals, prev, frames, svc, http, tox>>

\* a service call from entry to return: out is what the service leaves
ServiceCall(op, area_id, out) ==
  /\ svc.pc = "idle"
  /\ db' = out.db
  /\ svc' = [pc |-> "done", op |-> op, area_id |-> area_id,
             raised |-> out.raised, response |-> out.response]
  /\ UNCHANGED notServices

SvcComputeAnalytics(area_id, time_range_from, time_range_to, now) ==
  /\ svc.pc = "idle"
  /\ HistoryRows(db) < MaxHistory
  /\ \E out \in {AnalyticsService_compute_analytics(
                   db, area_id, time_range_from, time_range_to, now)} :
       ServiceCall("AnalyticsService.compute_analytics", area_id, out)

SvcPredictHazard(area_id, hazard, horizon, now) ==
  /\ svc.pc = "idle"
  /\ HistoryRows(db) < MaxHistory
  /\ \E out \in {PredictionService_predict_hazard(
                   db, area_id, hazard, horizon, now)} :
       ServiceCall("PredictionService.predict_hazard", area_id, out)

SvcGetPredictionHistory(area_id, skip, limit) ==
  /\ svc.pc = "idle"
  /\ \E predictions \in get_prediction_history(db, area_id, skip, limit) :
       \E out \in {PredictionService_get_prediction_history(
                     db, area_id, predictions)} :
         ServiceCall("PredictionService.get_prediction_history", area_id, out)

SvcSimulateScenarios(area_id, hazard, scenarios, now) ==
  /\ svc.pc = "idle"
  /\ \E out \in {ScenarioService_simulate_scenarios(
                   db, area_id, hazard, scenarios, now)} :
       ServiceCall("ScenarioService.simulate_scenarios", area_id, out)

SvcGenerateHeatmap(area_id, hazard, layer, resolution) ==
  /\ svc.pc = "idle"
  /\ \E out \in {HeatmapService_generate_heatmap(
                   db, area_id, hazard, layer, resolution)} :
       ServiceCall("HeatmapService.generate_heatmap", area_id, out)

SvcComputeEvacuationRoutes(area_id, start_points) ==
  /\ svc.pc = "idle"
  /\ \E out \in {EvacuationService_compute_evacuation_routes(
                   db, area_id, start_points)} :
       ServiceCall("EvacuationService.compute_evacuation_routes", area_id, out)

\* the caller takes the response; the next call can start
SvcReturn ==
  /\ svc.pc = "done"
  /\ svc' = NoSvc
  /\ UNCHANGED db
  /\ UNCHANGED notServices

\* the services never read Area.user_id: one owner is enough here
NextServices ==
  \/ \E user_id \in {1} : CreateArea(user_id)
  \/ \E area_id \in ServiceAreaIds :
       SvcComputeAnalytics(area_id, 0, MaxTime, 0)
  \/ \E area_id \in ServiceAreaIds, hazard \in ServiceHazards,
        horizon \in ServiceHorizons, now \in ServiceTimes :
       SvcPredictHazard(area_id, hazard, horizon, now)
  \/ \E area_id \in ServiceAreaIds, skip \in Skips, limit \in Limits :
       SvcGetPredictionHistory(area_id, skip, limit)
  \/ \E area_id \in ServiceAreaIds, hazard \in ServiceHazards,
        scenarios \in ServiceScenarioLists, now \in ServiceTimes :
       SvcSimulateScenarios(area_id, hazard, scenarios, now)
  \/ \E area_id \in ServiceAreaIds, hazard \in ServiceHazards :
       SvcGenerateHeatmap(area_id, hazard, "landslide_risk", "low")
  \/ \E area_id \in ServiceAreaIds, start_points \in ServiceStartPointLists :
       SvcComputeEvacuationRoutes(area_id, start_points)
  \/ SvcReturn

SpecServices == Init /\ [][NextServices]_vars

(***************************************************************************)
(* C19.  The history tables are append-only.  In every step of the EWS     *)
(* services each row of prediction_history and analytics_history stays in  *)
(* its place with its fields unchanged; prediction_history changes only by *)
(* PredictionService.predict_hazard adding exactly one row and             *)
(* analytics_history only by AnalyticsService.compute_analytics adding     *)
(* exactly one row; simulate_scenarios, generate_heatmap,                  *)
(* compute_evacuation_routes and get_prediction_history leave both tables  *)
(* as they were.                                                           *)
(***************************************************************************)
C19_Kept(before, after) ==
  /\ Len(after) >= Len(before)
  /\ \A k \in 1..Len(before) : after[k] = before[k]

C19_ByOnly(before, after, op) ==
  after # before =>
    /\ svc'.pc = "done"
    /\ svc'.op = op
    /\ Len(after) = Len(before) + 1

C19_ReadOnlyOps ==
  {"ScenarioService.simulate_scenarios", "HeatmapService.generate_heatmap",
   "EvacuationService.compute_evacuation_routes",
   "PredictionService.get_prediction_history"}

C19_Step ==
  /\ C19_Kept(db.prediction_history, db'.prediction_history)
  /\ C19_Kept(db.analytics_history, db'.analytics_history)
  /\ C19_ByOnly(db.prediction_history, db'.prediction_history,
                "PredictionService.predict_hazard")
  /\ C19_ByOnly(db.analytics_history, db'.analytics_history,
                "AnalyticsService.compute_analytics")
  /\ (svc.pc = "idle" /\ svc'.pc = "done" /\ svc'.op \in C19_ReadOnlyOps) =>
       /\ db'.prediction_history = db.prediction_history
       /\ db'.analytics_history = db.analytics_history

C19_HistoriesAppendOnly == [][C19_Step]_vars

\* a read-only service has returned on a database holding a row in each
\* history table
C19_Witness ==
  /\ svc.pc = "done"
  /\ svc.op = "PredictionService.get_prediction_history"
  /\ Len(svc.response.predictions) = 1
  /\ Len(db.prediction_history) = 1
  /\ Len(db.analytics_history) = 1

(***************************************************************************)
(* The EWS endpoints (src/app/modules/ews/router.py).  A request carries a *)
(* bearer token; Depends(get_current_user) turns it into current_user      *)
(* before the endpoint's body runs.  Python values are records that name   *)
(* their class, so that an attribute access can fail.                      *)
(***************************************************************************)
\* a token this server accepts carries "sub": str(user.id) (auth/router.py:31);
\* any other token does not decode
Tokens ==
  {[valid |-> FALSE, sub |-> ""]}
    \cup {[valid |-> TRUE, sub |-> ToString(u)] : u \in UserIds}

\* core/security.py get_current_user: the payload's "sub", a str, or
\* HTTPException(401) when the token does not decode
get_current_user(token) ==
  IF token.valid
  THEN [raised |-> "", value |-> [class |-> "str", value |-> token.sub]]
  ELSE [raised |-> "HTTPException", status |-> 401]

\* obj.id: an instance of the ORM class User has the attribute, a str raises
\* AttributeError
HasId(obj) == obj.class = "User"

\* The statements every endpoint runs before it calls its service: the
\* dependency, then check_area_ownership(db, area_id, current_user.id) or
\* 403, then get_area_by_id(db, area_id) or 404.  The result is the HTTP
\* status the request ends with, or 0 when the endpoint goes on to the
\* service.  An exception that is not an HTTPException ends the request
\* with 500.
EndpointChecks(d, token, area_id) ==
  LET current_user == get_current_user(token)
  IN  IF current_user.raised # "" THEN current_user.status
      ELSE IF ~HasId(current_user.value) THEN 500
      ELSE IF ~check_area_ownership(d, area_id, current_user.value.id)
        THEN 403
      ELSE IF ~Truthy(get_area_by_id(d, area_id)) THEN 404
      ELSE 0

\* one request from its arrival to its response; out is what the endpoint's
\* service leaves when it is called
Endpoint(name, token, area_id, out) ==
  /\ http.pc = "idle"
  /\ \E checks \in {EndpointChecks(db, token, area_id)} :
       IF checks = 0
       THEN /\ db' = out.db
            /\ http' = [pc |-> "done", endpoint |-> name, token |-> token,
                        area_id |-> area_id, service_called |-> TRUE,
                        status |-> IF out.raised = "" THEN 200 ELSE 500,
                        body |-> out.response,
                        rows_before |-> HistoryRows(db)]
       ELSE /\ db' = db
            /\ http' = [pc |-> "done", endpoint |-> name, token |-> token,
                        area_id |-> area_id, service_called |-> FALSE,
                        status |-> checks, body |-> NoResponse,
                        rows_before |-> HistoryRows(db)]
  /\ UNCHANGED notRouter

\* POST /ews/analytics
PostAnalytics(token, area_id, now) ==
  /\ HistoryRows(db) < MaxHistory
  /\ Endpoint("compute_analytics", token, area_id,
              AnalyticsService_compute_analytics(db, area_id, 0, MaxTime, now))

\* POST /ews/predict
PostPredict(token, area_id, hazard, horizon, now) ==
  /\ HistoryRows(db) < MaxHistory
  /\ Endpoint("predict_hazard", token, area_id,
              PredictionService_predict_hazard(db, area_id, hazard, horizon,
                                               now))

\* GET /ews/areas/{area_id}/predictions/history
GetPredictionsHistory(token, area_id, skip, limit) ==
  \E predictions \in get_prediction_history(db, area_id, skip, limit) :
    Endpoint("get_prediction_history", token, area_id,
             PredictionService_get_prediction_history(db, area_id,
                                                      predictions))

\* POST /ews/scenarios
PostScenarios(token, area_id, hazard, scenarios, now) ==
  Endpoint("simulate_scenarios", token, area_id,
           ScenarioService_simulate_scenarios(db, area_id, hazard, scenarios,
                                              now))

\* POST /ews/heatmap
PostHeatmap(token, area_id, hazard, layer, resolution) ==
  Endpoint("generate_heatmap", token, area_id,
           HeatmapService_generate_heatmap(db, area_id, hazard, layer,
                                           resolution))

\* POST /ews/evacuation
PostEvacuation(token, area_id, start_points) ==
  Endpoint("compute_evacuation_routes", token, area_id,
           EvacuationService_compute_evacuation_routes(db, area_id,
                                                       start_points))

\* the response is sent; the next request can arrive
HttpReturn ==
  /\ http.pc = "done"
  /\ http' = NoHttp
  /\ UNCHANGED db
  /\ UNCHANGED notRouter

\* agri_logic repository.delete_area: db.delete, db.commit.  The history
\* tables reference areas.id without ON DELETE, so the commit of a delete
\* raises IntegrityError while a history row of the area exists.
delete_area(d, area_id) ==
  IF \E k \in 1..Len(d.prediction_history) :
       d.prediction_history[k].area_id = area_id
    THEN d
  ELSE IF \E k \in 1..Len(d.analytics_history) :
       d.analytics_history[k].area_id = area_id
    THEN d
  ELSE [d EXCEPT !.areas = {a \in @ : a.id # area_id}]

\* AreaService.delete_area(db, area_id)
DeleteArea(area_id) ==
  /\ \E a \in db.areas : a.id = area_id
  /\ db' = delete_area(db, area_id)
  /\ UNCHANGED <<pc, req, res, locals, prev, frames, svc, http, tox>>

\* requests answered one at a time while areas are created and deleted
NextRouter ==
  \/ \E user_id \in UserIds : http.pc = "idle" /\ CreateArea(user_id)
  \/ \E area_id \in DbAreaIds : http.pc = "idle" /\ DeleteArea(area_id)
  \/ \E token \in Tokens, area_id \in DbAreaIds, now \in Times :
       PostAnalytics(token, area_id, now)
  \/ \E token \in Tokens, area_id \in DbAreaIds, hazard \in ServiceHazards,
        horizon \in ServiceHorizons, now \in Times :
       PostPredict(token, area_id, hazard, horizon, now)
  \/ \E token \in Tokens, area_id \in DbAreaIds :
       GetPredictionsHistory(token, area_id, 0, 100)
  \/ \E token \in Tokens, area_id \in DbAreaIds, hazard \in ServiceHazards,
        now \in Times :
       PostScenarios(token, area_id, hazard, <<ThreadScenario>>, now)
  \/ \E token \in Tokens, area_id \in DbAreaIds, hazard \in ServiceHazards :
       PostHeatmap(token, area_id, hazard, "landslide_risk", "low")
  \/ \E token \in Tokens, area_id \in DbAreaIds :
       PostEvacuation(token, area_id, <<ThreadStartPoints[1]>>)
  \/ HttpReturn

SpecRouter == Init /\ [][NextRouter]_vars

(***************************************************************************)
(* C18.  In every EWS endpoint the ownership and existence checks run      *)
(* before the service.  For every state of the areas table and every       *)
(* current user: a service is called, a response with computed risk data   *)
(* is returned or a history row is written only if the requested area      *)
(* exists and its user_id is the current user's id; and a request by a     *)
(* user who does not own the area ends in 403 with no history row written. *)
(***************************************************************************)
\* the user the request's token was issued to
C18_CurrentUserId == CHOOSE u \in UserIds : ToString(u) = http.token.sub

C18_Owner ==
  \E a \in db.areas : a.id = http.area_id /\ a.user_id = C18_CurrentUserId

C18_ChecksBeforeService ==
  (http.pc = "done" /\ http.token.valid) =>
    /\ (\/ http.service_called
        \/ http.body # NoResponse
        \/ HistoryRows(db) # http.rows_before) => C18_Owner
    /\ ~C18_Owner =>
         /\ http.status = 403
         /\ HistoryRows(db) = http.rows_before

(***************************************************************************)
(* The predictive-toxicity module                                          *)
(* (src/app/modules/predictive_toxicity/{models,repository,service}.py).   *)
(* tox.simulations and tox.metrics are the tables                          *)
(* predictive_toxicity_simulations and predictive_toxicity_metrics, with   *)
(* the columns the risk profile reads; tox.pc, tox.call hold the service   *)
(* call in progress.  UUIDs are small numbers and names.                   *)
(***************************************************************************)
MaxSimulations == 2

SimulationIds == 1..MaxSimulations
ToxUsers == {"user_a", "user_b"}

\* models.SimulationStatus
QUEUED == "QUEUED"
RUNNING == "RUNNING"
POSTPROCESSING == "POSTPROCESSING"
COMPLETED == "COMPLETED"
FAILED == "FAILED"
SimulationStatus == {QUEUED, RUNNING, POSTPROCESSING, COMPLETED, FAILED}

ENGINE_NAME == "PredictiveToxicityEngine"
ENGINE_VERSION == "1.0.0"
\* the readings of datetime.utcnow when a simulation row is created
ToxTimes == {0}
FLOOD == "flood"
EARTHQUAKE == "earthquake"
CalamityType == {FLOOD, EARTHQUAKE}
\* the bodies of POST /simulate: ToxicitySimulationCreate
ToxCreates == {[site_id |-> "site_1", calamity_type |-> FLOOD]}

\* a Python dict is a function on its keys; {} is the function on no keys
EmptyDict == [k \in {} |-> None]
\* bool(d) of an Optional[dict]: None and {} are false
DictTruthy(d) == d # None /\ DOMAIN d[1] # {}
\* d.get(key, default)
DictGet(d, key, default) == IF key \in DOMAIN d THEN d[key] ELSE default

\* the values a worker stores in a metrics row
MetricsValues ==
  { [critical_radius_km |-> Dec(38, 1), estimated_population |-> 14500,
     affected_agri_land_acres |-> FromInt(1200),
     primary_toxins |-> <<"Lead", "Chromium VI">>,
     health_risks |-> <<"Neurological issues">>,
     metrics_blob |->
       Some([confidence_score |-> Some(Dec(92, 2)),
             dataset_versions |-> Some([CPCB |-> "2024-01"])])],
    [critical_radius_km |-> Zero, estimated_population |-> 0,
     affected_agri_land_acres |-> Zero,
     primary_toxins |-> <<>>, health_risks |-> <<>>,
     metrics_blob |-> None],
    [critical_radius_km |-> FromInt(1), estimated_population |-> 1,
     affected_agri_land_acres |-> Dec(5, 1),
     primary_toxins |-> <<"Arsenic">>, health_risks |-> <<>>,
     metrics_blob |-> Some(EmptyDict)] }

\* a slip: the new row stored as already running
create_simulation_running(t, simulation_id, user_id, site_id, calamity_type, engine_name, engine_version, created_at) ==
  [t EXCEPT !.simulations =
     @ \cup {[simulation_id |-> simulation_id, user_id |-> user_id,
              site_id |-> site_id, calamity_type |-> calamity_type,
              status |-> RUNNING, engine_name |-> engine_name,
              engine_version |-> engine_version, created_at |-> created_at,
              started_at |-> Some(created_at), completed_at |-> None,
              error_message |-> None]}]

\* repository.create_simulation: db.add, db.commit, db.refresh of a row with
\* status QUEUED; simulation_id is a fresh uuid4, created_at the clock's
\* reading, started_at, completed_at and error_message are left NULL
create_simulation(t, simulation_id, user_id, site_id, calamity_type, engine_name, engine_version, created_at) ==
  [t EXCEPT !.simulations =
     @ \cup {[simulation_id |-> simulation_id, user_id |-> user_id,
              site_id |-> site_id, calamity_type |-> calamity_type,
              status |-> QUEUED, engine_name |-> engine_name,
              engine_version |-> engine_version, created_at |-> created_at,
              started_at |-> None, completed_at |-> None,
              error_message |-> None]}]

\* repository.get_simulation_by_id: .filter(simulation_id == , user_id == )
\* .first()
get_simulation_by_id(t, simulation_id, user_id) ==
  IF \E s \in t.simulations :
       s.simulation_id = simulation_id /\ s.user_id = user_id
  THEN Some(CHOOSE s \in t.simulations :
              s.simulation_id = simulation_id /\ s.user_id = user_id)
  ELSE None

\* a slip: the row looked up by simulation_id alone
update_simulation_status_any_owner(t, simulation_id, user_id, status, started_at, completed_at, error_message) ==
  [t EXCEPT !.simulations =
     {IF s.simulation_id = simulation_id
        THEN [s EXCEPT !.status = status] ELSE s : s \in @}]

\* repository.update_simulation_status: the row of get_simulation_by_id gets
\* the status, and each of started_at, completed_at, error_message that is
\* given (a datetime is always true; None and "" are false)
update_simulation_status(t, simulation_id, user_id, status, started_at, completed_at, error_message) ==
  IF get_simulation_by_id(t, simulation_id, user_id) = None THEN t
  ELSE [t EXCEPT !.simulations =
          {IF s.simulation_id = simulation_id /\ s.user_id = user_id
             THEN [s EXCEPT
                     !.status = status,
                     !.started_at =
                       IF started_at # None THEN started_at ELSE @,
                     !.completed_at =
                       IF completed_at # None THEN completed_at ELSE @,
                     !.error_message =
                       IF error_message # None /\ error_message # Some("")
                         THEN error_message ELSE @]
             ELSE s : s \in @}]

\* repository.create_simulation_metrics; simulation_id is the primary key,
\* so the commit of a second row for it raises IntegrityError
create_simulation_metrics(t, simulation_id, values) ==
  IF \E m \in t.metrics : m.simulation_id = simulation_id THEN t
  ELSE [t EXCEPT !.metrics =
          @ \cup {[simulation_id |-> simulation_id] @@ values}]

\* repository.get_simulation_metrics
get_simulation_metrics(t, simulation_id) ==
  IF \E m \in t.metrics : m.simulation_id = simulation_id
  THEN Some(CHOOSE m \in t.metrics : m.simulation_id = simulation_id)
  ELSE None

\* PredictiveToxicityService._build_risk_profile_response
build_risk_profile_response(simulation, metrics) ==
  [simulation_id |-> simulation.simulation_id,
   critical_radius_km |-> metrics.critical_radius_km,
   affected_metrics |->
     [estimated_population |-> metrics.estimated_population,
      affected_agri_land_acres |-> metrics.affected_agri_land_acres,
      primary_toxins |-> metrics.primary_toxins,
      health_risks |-> metrics.health_risks],
   confidence_score |->
     IF DictTruthy(metrics.metrics_blob)
       THEN DictGet(metrics.metrics_blob[1], "confidence_score", None)
       ELSE None,
   dataset_versions |->
     IF DictTruthy(metrics.metrics_blob)
       THEN DictGet(metrics.metrics_blob[1], "dataset_versions",
                    Some(EmptyDict))
       ELSE Some(EmptyDict),
   engine_version |-> simulation.engine_version]

\* a slip: POSTPROCESSING left out of the list of unfinished states
get_simulation_risk_profile_unlisted(t, simulation_id, user_id) ==
  LET simulation == get_simulation_by_id(t, simulation_id, user_id)
      metrics    == get_simulation_metrics(t, simulation_id)
  IN  IF simulation = None
        THEN [response |-> None, status_code |-> None]
      ELSE IF simulation[1].status \in {QUEUED, RUNNING}
        THEN [response |-> None, status_code |-> Some(202)]
      ELSE IF simulation[1].status = FAILED
        THEN [response |-> None, status_code |-> Some(422)]
      ELSE IF metrics = None
        THEN [response |-> None, status_code |-> Some(422)]
      ELSE [response |->
              Some(build_risk_profile_response(simulation[1], metrics[1])),
            status_code |-> None]

\* PredictiveToxicityService.get_simulation_risk_profile: the pair
\* (response, status_code) it returns
get_simulation_risk_profile(t, simulation_id, user_id) ==
  LET simulation == get_simulation_by_id(t, simulation_id, user_id)
      metrics    == get_simulation_metrics(t, simulation_id)
  IN  IF simulation = None
        THEN [response |-> None, status_code |-> None]
      ELSE IF simulation[1].status \in {QUEUED, RUNNING, POSTPROCESSING}
        THEN [response |-> None, status_code |-> Some(202)]
      ELSE IF simulation[1].status = FAILED
        THEN [response |-> None, status_code |-> Some(422)]
      ELSE IF metrics = None
        THEN [response |-> None, status_code |-> Some(422)]
      ELSE [response |->
              Some(build_risk_profile_response(simulation[1], metrics[1])),
            status_code |-> None]

\* PredictiveToxicityService._queue_simulation_processing: pass
queue_simulation_processing(t, simulation_id) == t

\* PredictiveToxicityService.create_simulation: the tables it leaves and the
\* ToxicitySimulationCreateResponse it returns
PredictiveToxicityService_create_simulation(t, simulation_id, user_id, data, created_at) ==
  [tox |-> queue_simulation_processing(
             create_simulation(t, simulation_id, user_id, data.site_id,
                               data.calamity_type, ENGINE_NAME,
                               ENGINE_VERSION, created_at),
             simulation_id),
   response |-> [simulation_id |-> simulation_id, status |-> QUEUED,
                 engine |-> ENGINE_NAME, engine_version |-> ENGINE_VERSION]]

\* a call of the service from entry to return
ToxCall(op, simulation_id, user_id, out) ==
  /\ tox.pc = "idle"
  /\ tox' = [out.tox EXCEPT
               !.pc = "done",
               !.call = [op |-> op, simulation_id |-> simulation_id,
                         user_id |-> user_id, result |-> out.response]]
  /\ UNCHANGED notToxicity

\* service.create_simulation(user_id, data)
ToxCreateSimulation(simulation_id, user_id, data, created_at) ==
  /\ \A s \in tox.simulations : s.simulation_id # simulation_id
  /\ \E out \in {PredictiveToxicityService_create_simulation(
                   tox, simulation_id, user_id, data, created_at)} :
       ToxCall("create_simulation", simulation_id, user_id, out)

\* repository.update_simulation_status(db, simulation_id, user_id, status)
\* called with only a status; nothing in the repository calls it
ToxUpdateSimulationStatus(simulation_id, user_id, status) ==
  /\ tox.pc = "idle"
  /\ get_simulation_by_id(tox, simulation_id, user_id) # None
  /\ tox' = update_simulation_status(tox, simulation_id, user_id, status,
                                     None, None, None)
  /\ UNCHANGED notToxicity

\* the processing of a simulation stores its metrics
ToxCreateSimulationMetrics(simulation_id, values) ==
  /\ tox.pc = "idle"
  /\ get_simulation_metrics(tox, simulation_id) = None
  /\ tox' = create_simulation_metrics(tox, simulation_id, values)
  /\ UNCHANGED notToxicity

\* service.get_simulation_risk_profile(simulation_id, user_id)
ToxGetSimulationRiskProfile(simulation_id, user_id) ==
  /\ tox.pc = "idle"
  /\ tox' = [tox EXCEPT
               !.pc = "done",
               !.call = [op |-> "get_simulation_risk_profile",
                         simulation_id |-> simulation_id,
                         user_id |-> user_id,
                         result |-> get_simulation_risk_profile(
                                      tox, simulation_id, user_id)]]
  /\ UNCHANGED notToxicity

\* the caller takes the pair
ToxReturn ==
  /\ tox.pc = "done"
  /\ tox' = [tox EXCEPT !.pc = "idle", !.call = [none |-> TRUE]]
  /\ UNCHANGED notToxicity

NextToxicity ==
  \/ \E simulation_id \in SimulationIds, user_id \in ToxUsers,
        data \in ToxCreates, created_at \in ToxTimes :
       ToxCreateSimulation(simulation_id, user_id, data, created_at)
  \/ \E simulation_id \in SimulationIds, user_id \in ToxUsers,
        status \in SimulationStatus :
       ToxUpdateSimulationStatus(simulation_id, user_id, status)
  \/ \E simulation_id \in SimulationIds, values \in MetricsValues :
       ToxCreateSimulationMetrics(simulation_id, values)
  \/ \E simulation_id \in SimulationIds, user_id \in ToxUsers :
       ToxGetSimulationRiskProfile(simulation_id, user_id)
  \/ ToxReturn

SpecToxicity == Init /\ [][NextToxicity]_vars

(***************************************************************************)
(* C20.  PredictiveToxicityService.get_simulation_risk_profile returns,    *)
(* for a simulation owned by the caller: (None, 202) when its status is    *)
(* QUEUED, RUNNING or POSTPROCESSING; (None, 422) when it is FAILED or     *)
(* when it is COMPLETED but has no metrics row; and (profile, None), with  *)
(* the profile's critical radius, population, land, toxins and health      *)
(* risks copied from the metrics row, only when the status is COMPLETED    *)
(* and a metrics row exists.  For a simulation that does not exist it      *)
(* returns (None, None).                                                   *)
(***************************************************************************)
C20_Called ==
  tox.pc = "done" /\ tox.call.op = "get_simulation_risk_profile"

\* the rows the call is about: the simulation with the requested id (if
\* any) and the metrics row with that id (if any)
C20_Simulations ==
  {s \in tox.simulations : s.simulation_id = tox.call.simulation_id}
C20_Owned == {s \in C20_Simulations : s.user_id = tox.call.user_id}
C20_Metrics ==
  {m \in tox.metrics : m.simulation_id = tox.call.simulation_id}

C20_Copied(profile, m) ==
  /\ profile.critical_radius_km = m.critical_radius_km
  /\ profile.affected_metrics.estimated_population = m.estimated_population
  /\ profile.affected_metrics.affected_agri_land_acres =
       m.affected_agri_land_acres
  /\ profile.affected_metrics.primary_toxins = m.primary_toxins
  /\ profile.affected_metrics.health_risks = m.health_risks

C20_RiskProfileOutcomes ==
  C20_Called =>
    LET result == tox.call.result
    IN  /\ \A s \in C20_Owned :
             /\ s.status \in {QUEUED, RUNNING, POSTPROCESSING} =>
                  result = [response |-> None, status_code |-> Some(202)]
             /\ s.status = FAILED =>
                  result = [response |-> None, status_code |-> Some(422)]
             /\ (s.status = COMPLETED /\ C20_Metrics = {}) =>
                  result = [response |-> None, status_code |-> Some(422)]
             /\ (s.status = COMPLETED /\ C20_Metrics # {}) =>
                  /\ result.status_code = None
                  /\ result.response # None
                  /\ \A m \in C20_Metrics : C20_Copied(result.response[1], m)
        /\ result.response # None =>
             /\ \E s \in C20_Owned : s.status = COMPLETED
             /\ C20_Metrics # {}
        /\ C20_Simulations = {} =>
             result = [response |-> None, status_code |-> None]

\* a profile has been returned for a completed simulation with metrics, the
\* simulation having been through POSTPROCESSING for another call
C20_Witness ==
  /\ C20_Called
  /\ tox.call.result.response # None
  /\ tox.call.result.response[1].critical_radius_km = Dec(38, 1)
  /\ \E s \in tox.simulations :
       s.simulation_id # tox.call.simulation_id /\ s.status = POSTPROCESSING

\* ---------------------------------------------------------------------------
\* C21: create_simulation adds exactly one simulation record, owned by the
\* given user_id, stored with status QUEUED and with started_at and
\* completed_at unset; it returns that record's simulation_id with status
\* QUEUED and the service's engine name and version, and it changes no
\* record that existed before
C21_CreateStep ==
  tox.pc = "idle" /\ tox'.pc = "done" /\ tox'.call.op = "create_simulation"

C21_Added == tox'.simulations \ tox.simulations

C21_Step ==
  C21_CreateStep =>
    /\ Cardinality(C21_Added) = 1
    /\ tox.simulations \subseteq tox'.simulations
    /\ tox'.metrics = tox.metrics
    /\ \A s \in C21_Added :
         /\ s.user_id = tox'.call.user_id
         /\ s.status = QUEUED
         /\ s.started_at = None
         /\ s.completed_at = None
         /\ tox'.call.result.simulation_id = s.simulation_id
    /\ tox'.call.result.status = QUEUED
    /\ tox'.call.result.engine = ENGINE_NAME
    /\ tox'.call.result.engine_version = ENGINE_VERSION

C21_CreateAddsOneQueued == [][C21_Step]_vars

\* a simulation has been created next to an existing one that is past QUEUED
C21_Witness ==
  /\ tox.pc = "done"
  /\ tox.call.op = "create_simulation"
  /\ \E s \in tox.simulations :
       s.simulation_id = tox.call.simulation_id /\ s.status = QUEUED
  /\ \E s \in tox.simulations :
       s.simulation_id # tox.call.simulation_id /\ s.status = COMPLETED

\* ---------------------------------------------------------------------------
\* The read operations of the predictive toxicity service, and the writes of
\* the repository that a worker would make
FALLOUT == "FALLOUT"
CRITICAL_RADIUS == "CRITICAL_RADIUS"
SECONDARY_SPREAD == "SECONDARY_SPREAD"
ZoneType == {FALLOUT, CRITICAL_RADIUS, SECONDARY_SPREAD}

\* the simulations of the access scenario, two users sharing one table
AccessSimulationIds == {1, 2}

\* the arguments a worker gives create_impact_zone: a WKT polygon as its ring
ZoneValues ==
  { [zone_type |-> CRITICAL_RADIUS,
     geometry |-> << <<0, 0>>, <<0, 1>>, <<1, 1>>, <<0, 0>> >>,
     area_sq_km |-> Dec(125, 1),
     properties |->
       Some([toxicity_ppm |-> [min_ppm |-> Dec(5, 1), max_ppm |-> FromInt(12)]])] }

\* the one metrics row of the access scenario
AccessMetricsValues == {m \in MetricsValues : m.estimated_population = 14500}

\* func.ST_GeomFromText(geometry, 4326)
ST_GeomFromText(wkt, srid) == [srid |-> srid, ring |-> wkt]
\* json.loads(ST_AsGeoJSON(geometry))
ST_AsGeoJSON(geometry) == [type |-> "Polygon", coordinates |-> <<geometry.ring>>]

\* repository.create_impact_zone
create_impact_zone(t, simulation_id, zone_type, geometry, area_sq_km, properties) ==
  [t EXCEPT !.zones =
     @ \cup {[simulation_id |-> simulation_id, zone_type |-> zone_type,
              geometry |-> ST_GeomFromText(geometry, 4326),
              area_sq_km |-> area_sq_km, properties |-> properties]}]

\* repository.get_impact_zones without a bbox
get_impact_zones(t, simulation_id) ==
  {z \in t.zones : z.simulation_id = simulation_id}

\* a slip: COMPLETED reported as half done and RUNNING as done
calculate_progress_swapped(status) ==
  IF status = RUNNING THEN Some(f1_0)
  ELSE IF status = POSTPROCESSING THEN Some(Dec(9, 1))
  ELSE IF status = COMPLETED THEN Some(Dec(5, 1))
  ELSE None

\* PredictiveToxicityService._calculate_progress: progress_map.get(status)
calculate_progress(status) ==
  IF status = RUNNING THEN Some(Dec(5, 1))
  ELSE IF status = POSTPROCESSING THEN Some(Dec(9, 1))
  ELSE IF status = COMPLETED THEN Some(f1_0)
  ELSE None

\* PredictiveToxicityService.get_simulation_status
get_simulation_status(t, simulation_id, user_id) ==
  LET simulation == get_simulation_by_id(t, simulation_id, user_id)
  IN  IF simulation = None THEN None
      ELSE Some([simulation_id |-> simulation[1].simulation_id,
                 status |-> simulation[1].status,
                 progress |-> calculate_progress(simulation[1].status),
                 started_at |-> simulation[1].started_at,
                 completed_at |-> simulation[1].completed_at,
                 error_message |-> simulation[1].error_message])

\* the ImpactZone the service builds of a stored zone
ImpactZoneOf(zone) ==
  [zone_type |-> zone.zone_type,
   geometry |-> ST_AsGeoJSON(zone.geometry),
   area_sq_km |-> zone.area_sq_km,
   toxicity_range_ppm |->
     IF DictTruthy(zone.properties)
          /\ "toxicity_ppm" \in DOMAIN zone.properties[1]
       THEN Some(zone.properties[1]["toxicity_ppm"])
       ELSE None]

\* PredictiveToxicityService.get_simulation_geometry without bbox: the zones
\* of the response as a set, the query giving them in no stated order
get_simulation_geometry(t, simulation_id, user_id) ==
  IF get_simulation_by_id(t, simulation_id, user_id) = None THEN None
  ELSE Some([simulation_id |-> simulation_id,
             zones |-> {ImpactZoneOf(z) : z \in get_impact_zones(t, simulation_id)}])

\* the rows repository.list_simulations counts and pages
ListedSimulations(t, user_id, site_id, status, calamity_type) ==
  {s \in t.simulations :
     /\ s.user_id = user_id
     /\ (site_id # None /\ site_id # Some("")) => s.site_id = site_id[1]
     /\ status # None => s.status = status[1]
     /\ calamity_type # None => s.calamity_type = calamity_type[1]}

\* repository.list_simulations: the pairs (items, total) the query can give
list_simulations(t, user_id, site_id, status, calamity_type, limit, offset) ==
  LET rows == ListedSimulations(t, user_id, site_id, status, calamity_type)
  IN  {[items |-> OffsetLimit(s, offset, limit), total |-> Cardinality(rows)] :
         s \in OrderedByCreatedAtDesc(rows)}

\* ToxicitySimulationListItem of a row
ListItemOf(sim) ==
  [simulation_id |-> sim.simulation_id, site_id |-> sim.site_id,
   calamity_type |-> sim.calamity_type, status |-> sim.status,
   created_at |-> sim.created_at]

\* SimulationStatus(status) if status else None, and the same of CalamityType;
\* a string that names no member raises ValueError
EnumOf(members, name) ==
  IF name = None \/ name = Some("") THEN [raised |-> FALSE, value |-> None]
  ELSE IF name[1] \in members THEN [raised |-> FALSE, value |-> name]
  ELSE [raised |-> TRUE, value |-> None]

\* PredictiveToxicityService.list_simulations: the responses it can give
PredictiveToxicityService_list_simulations(t, user_id, site_id, status, calamity_type, limit, offset) ==
  LET status_enum   == EnumOf(SimulationStatus, status)
      calamity_enum == EnumOf(CalamityType, calamity_type)
  IN  IF status_enum.raised \/ calamity_enum.raised
        THEN {[raised |-> "ValueError"]}
      ELSE {[raised |-> "", total |-> page.total, limit |-> limit,
             offset |-> offset,
             items |-> [k \in 1..Len(page.items) |-> ListItemOf(page.items[k])]] :
              page \in list_simulations(t, user_id, site_id, status_enum.value,
                                        calamity_enum.value, limit, offset)}

\* the query parameters of GET /simulations in the access scenario
ListQueries ==
  { [site_id |-> None, status |-> None, calamity_type |-> None,
     limit |-> 10, offset |-> 0],
    [site_id |-> Some("site_1"), status |-> Some(QUEUED),
     calamity_type |-> None, limit |-> 1, offset |-> 0],
    [site_id |-> None, status |-> None, calamity_type |-> Some(FLOOD),
     limit |-> 1, offset |-> 1],
    [site_id |-> None, status |-> Some("DONE"), calamity_type |-> None,
     limit |-> 10, offset |-> 0] }

\* service.get_simulation_status(simulation_id, user_id)
ToxGetSimulationStatus(simulation_id, user_id) ==
  ToxCall("get_simulation_status", simulation_id, user_id,
          [tox |-> tox,
           response |-> get_simulation_status(tox, simulation_id, user_id)])

\* service.get_simulation_risk_profile(simulation_id, user_id)
ToxGetRiskProfile(simulation_id, user_id) ==
  ToxCall("get_simulation_risk_profile", simulation_id, user_id,
          [tox |-> tox,
           response |-> get_simulation_risk_profile(tox, simulation_id, user_id)])

\* service.get_simulation_geometry(simulation_id, user_id)
ToxGetSimulationGeometry(simulation_id, user_id) ==
  ToxCall("get_simulation_geometry", simulation_id, user_id,
          [tox |-> tox,
           response |-> get_simulation_geometry(tox, simulation_id, user_id)])

\* service.list_simulations(user_id, site_id, status, calamity_type, limit, offset)
ToxListSimulations(user_id, q) ==
  \E response \in PredictiveToxicityService_list_simulations(
                    tox, user_id, q.site_id, q.status, q.calamity_type,
                    q.limit, q.offset) :
    ToxCall("list_simulations", q, user_id,
            [tox |-> tox, response |-> response])

\* repository.update_simulation_status(db, simulation_id, user_id, status) by
\* any user for any id; it returns the row it changed or None
ToxUpdateStatus(simulation_id, user_id, status) ==
  \E after \in {update_simulation_status(tox, simulation_id, user_id, status,
                                         None, None, None)} :
    ToxCall("update_simulation_status", simulation_id, user_id,
            [tox |-> after,
             response |-> get_simulation_by_id(after, simulation_id, user_id)])

\* repository.create_impact_zone by the worker of an existing simulation
ToxCreateImpactZone(simulation_id, z) ==
  /\ tox.pc = "idle"
  /\ \E s \in tox.simulations : s.simulation_id = simulation_id
  /\ \A zone \in tox.zones : zone.simulation_id # simulation_id
  /\ tox' = create_impact_zone(tox, simulation_id, z.zone_type, z.geometry,
                               z.area_sq_km, z.properties)
  /\ UNCHANGED notToxicity

NextToxicityAccess ==
  \/ \E simulation_id \in AccessSimulationIds, user_id \in ToxUsers,
        data \in ToxCreates, created_at \in ToxTimes :
       ToxCreateSimulation(simulation_id, user_id, data, created_at)
  \/ \E simulation_id \in AccessSimulationIds, user_id \in ToxUsers,
        status \in SimulationStatus :
       ToxUpdateStatus(simulation_id, user_id, status)
  \/ \E simulation_id \in AccessSimulationIds, values \in AccessMetricsValues :
       ToxCreateSimulationMetrics(simulation_id, values)
  \/ \E simulation_id \in AccessSimulationIds, z \in ZoneValues :
       ToxCreateImpactZone(simulation_id, z)
  \/ \E simulation_id \in AccessSimulationIds, user_id \in ToxUsers :
       ToxGetSimulationStatus(simulation_id, user_id)
  \/ \E simulation_id \in AccessSimulationIds, user_id \in ToxUsers :
       ToxGetRiskProfile(simulation_id, user_id)
  \/ \E simulation_id \in AccessSimulationIds, user_id \in ToxUsers :
       ToxGetSimulationGeometry(simulation_id, user_id)
  \/ \E user_id \in ToxUsers, q \in ListQueries :
       ToxListSimulations(user_id, q)
  \/ ToxReturn

SpecToxicityAccess == Init /\ [][NextToxicityAccess]_vars

\* ---------------------------------------------------------------------------
\* C22: get_simulation_status reports the stored status of the caller's
\* simulation unchanged, with progress 0.5 for RUNNING, 0.9 for POSTPROCESSING,
\* 1.0 for COMPLETED and None for QUEUED and FAILED, so the progress never
\* decreases along QUEUED, RUNNING, POSTPROCESSING, COMPLETED; the call
\* changes no stored state
C22_Lifecycle == <<QUEUED, RUNNING, POSTPROCESSING, COMPLETED>>

\* progress a is not above progress b, no progress (None) being the least
C22_NotAbove(a, b) == a = None \/ (b # None /\ FLe(a[1], b[1]))

C22_StatusStep ==
  tox.pc = "idle" /\ tox'.pc = "done" /\ tox'.call.op = "get_simulation_status"

C22_Stored ==
  {s \in tox.simulations :
     s.simulation_id = tox'.call.simulation_id /\ s.user_id = tox'.call.user_id}

C22_Step ==
  C22_StatusStep =>
    /\ tox'.simulations = tox.simulations
    /\ tox'.metrics = tox.metrics
    /\ tox'.zones = tox.zones
    /\ \A s \in C22_Stored :
         /\ tox'.call.result # None
         /\ tox'.call.result[1].status = s.status
         /\ tox'.call.result[1].progress =
              CASE s.status = RUNNING        -> Some(Dec(5, 1))
                [] s.status = POSTPROCESSING -> Some(Dec(9, 1))
                [] s.status = COMPLETED      -> Some(FromInt(1))
                [] OTHER                     -> None
    /\ \A k \in 1..(Len(C22_Lifecycle) - 1) :
         C22_NotAbove(calculate_progress(C22_Lifecycle[k]),
                      calculate_progress(C22_Lifecycle[k + 1]))

C22_StatusAndProgress == [][C22_Step]_vars

\* the status of a completed simulation has been reported to its owner
C22_Witness ==
  /\ tox.pc = "done"
  /\ tox.call.op = "get_simulation_status"
  /\ tox.call.result # None
  /\ tox.call.result[1].status = COMPLETED
  /\ tox.call.result[1].progress = Some(FromInt(1))

\* ---------------------------------------------------------------------------
\* C27: a user who calls get_simulation_status, get_simulation_risk_profile or
\* get_simulation_geometry with the id of another user's simulation gets
\* exactly what an id that names no simulation gives (None, and (None, None)
\* for the risk profile); list_simulations for a user holds no simulation of
\* another user and its total counts none; update_simulation_status with
\* another user's id leaves the simulation unchanged
C27_CallStep(op) == tox.pc = "idle" /\ tox'.pc = "done" /\ tox'.call.op = op

\* the simulation named by the call exists and belongs to another user
C27_Foreign ==
  \E s \in tox.simulations :
    s.simulation_id = tox'.call.simulation_id /\ s.user_id # tox'.call.user_id

\* the tables without the simulation the call names
C27_Absent ==
  [tox EXCEPT
     !.simulations = {s \in @ : s.simulation_id # tox'.call.simulation_id},
     !.metrics = {m \in @ : m.simulation_id # tox'.call.simulation_id},
     !.zones = {z \in @ : z.simulation_id # tox'.call.simulation_id}]

\* the tables with the caller's simulations only
C27_Own ==
  [tox EXCEPT !.simulations = {s \in @ : s.user_id = tox'.call.user_id}]

C27_Step ==
  /\ (C27_CallStep("get_simulation_status") /\ C27_Foreign) =>
       /\ tox'.call.result = None
       /\ tox'.call.result =
            get_simulation_status(C27_Absent, tox'.call.simulation_id,
                                  tox'.call.user_id)
  /\ (C27_CallStep("get_simulation_risk_profile") /\ C27_Foreign) =>
       /\ tox'.call.result = [response |-> None, status_code |-> None]
       /\ tox'.call.result =
            get_simulation_risk_profile(C27_Absent, tox'.call.simulation_id,
                                        tox'.call.user_id)
  /\ (C27_CallStep("get_simulation_geometry") /\ C27_Foreign) =>
       /\ tox'.call.result = None
       /\ tox'.call.result =
            get_simulation_geometry(C27_Absent, tox'.call.simulation_id,
                                    tox'.call.user_id)
  /\ (C27_CallStep("list_simulations") /\ tox'.call.result.raised = "") =>
       /\ \A k \in 1..Len(tox'.call.result.items) :
            \E s \in tox.simulations :
              /\ s.simulation_id = tox'.call.result.items[k].simulation_id
              /\ s.user_id = tox'.call.user_id
       /\ tox'.call.result.total
            <= Cardinality({s \in tox.simulations :
                              s.user_id = tox'.call.user_id})
       /\ LET q == tox'.call.simulation_id
          IN  tox'.call.result \in
                PredictiveToxicityService_list_simulations(
                  C27_Own, tox'.call.user_id, q.site_id, q.status,
                  q.calamity_type, q.limit, q.offset)
  /\ (C27_CallStep("update_simulation_status") /\ C27_Foreign) =>
       /\ tox'.simulations = tox.simulations
       /\ tox'.call.result = None

C27_NoCrossUserAccess == [][C27_Step]_vars

\* a user has asked for the geometry of another user's completed simulation,
\* which has a zone, and got None
C27_Witness ==
  /\ tox.pc = "done"
  /\ tox.call.op = "get_simulation_geometry"
  /\ tox.call.result = None
  /\ \E s \in tox.simulations :
       /\ s.simulation_id = tox.call.simulation_id
       /\ s.user_id # tox.call.user_id
       /\ s.status = COMPLETED
       /\ \E z \in tox.zones : z.simulation_id = s.simulation_id

\* ---------------------------------------------------------------------------
\* The service as the repository runs it: the operations of
\* PredictiveToxicityService are all that touches the tables, since
\* _queue_simulation_processing dispatches nothing and no code of the
\* repository calls update_simulation_status. The server goes on serving
\* requests, which the weak fairness states.
NextToxicityQueue ==
  \/ \E simulation_id \in AccessSimulationIds, user_id \in ToxUsers,
        data \in ToxCreates, created_at \in ToxTimes :
       ToxCreateSimulation(simulation_id, user_id, data, created_at)
  \/ \E simulation_id \in AccessSimulationIds, user_id \in ToxUsers :
       ToxGetSimulationStatus(simulation_id, user_id)
  \/ \E simulation_id \in AccessSimulationIds, user_id \in ToxUsers :
       ToxGetRiskProfile(simulation_id, user_id)
  \/ \E simulation_id \in AccessSimulationIds, user_id \in ToxUsers :
       ToxGetSimulationGeometry(simulation_id, user_id)
  \/ \E user_id \in ToxUsers, q \in ListQueries :
       ToxListSimulations(user_id, q)
  \/ ToxReturn

SpecToxicityQueue ==
  Init /\ [][NextToxicityQueue]_vars /\ WF_vars(NextToxicityQueue)

\* C26: a simulation accepted by create_simulation eventually leaves QUEUED
\* (it is moved to RUNNING and later to COMPLETED or FAILED) without any
\* further request by the user
C26_Queued(simulation_id) ==
  \E s \in tox.simulations :
    s.simulation_id = simulation_id /\ s.status = QUEUED

C26_Left(simulation_id) ==
  \E s \in tox.simulations :
    s.simulation_id = simulation_id /\ s.status # QUEUED

C26_EventuallyLeavesQueued ==
  \A simulation_id \in AccessSimulationIds :
    C26_Queued(simulation_id) ~> C26_Left(simulation_id)

\* ---------------------------------------------------------------------------
\* C24: every EWS endpoint answers a request that names an area_id not in the
\* areas table with 404 'Area not found', and answers 403 only when the area
\* exists but belongs to another user
C24_AreaExists == \E a \in db.areas : a.id = http.area_id

C24_OthersArea ==
  \E a \in db.areas : a.id = http.area_id /\ a.user_id # C18_CurrentUserId

C24_MissingAreaIs404 ==
  (http.pc = "done" /\ http.token.valid) =>
    /\ ~C24_AreaExists => http.status = 404
    /\ http.status = 403 => C24_OthersArea

\* ---------------------------------------------------------------------------
\* C25: after any sequence of predict_hazard calls,
\* get_prediction_history(area_id, skip, limit) returns total = the number of
\* prediction records saved for that area, whatever skip and limit are and
\* never counting other areas, and predictions = that area's records newest
\* first with the first skip dropped and at most limit kept, so that
\* len(predictions) = min(limit, max(total - skip, 0))
C25_Min(a, b) == IF a < b THEN a ELSE b
C25_Max(a, b) == IF a > b THEN a ELSE b

\* the records of the area in the table
C25_Saved(area_id) ==
  {db.prediction_history[k] :
     k \in {n \in 1..Len(db.prediction_history) :
              db.prediction_history[n].area_id = area_id}}

C25_Page(area_id, skip, limit, r) ==
  LET saved == C25_Saved(area_id)
      n     == Len(r.predictions)
      page  == {r.predictions[k] : k \in 1..n}
      out   == saved \ page
  IN  /\ r.total = Cardinality(saved)
      /\ n = C25_Min(limit, C25_Max(r.total - skip, 0))
      /\ page \subseteq saved
      /\ Cardinality(page) = n
      /\ \A a, b \in 1..n :
           a < b => r.predictions[a].created_at >= r.predictions[b].created_at
      /\ n > 0 =>
           \E dropped \in SUBSET out :
             /\ Cardinality(dropped) = skip
             /\ \A x \in dropped : x.created_at >= r.predictions[1].created_at
             /\ \A x \in out \ dropped :
                  x.created_at <= r.predictions[n].created_at

C25_Step ==
  \A area_id \in ServiceAreaIds, skip \in Skips, limit \in Limits :
    SvcGetPredictionHistory(area_id, skip, limit) =>
      C25_Page(area_id, skip, limit, svc'.response)

C25_HistoryPage == [][C25_Step]_vars

\* the history of an area with one record was asked for with a skip that
\* drops it, while the table holds a record of another area
C25_Witness ==
  /\ svc.pc = "done"
  /\ svc.op = "PredictionService.get_prediction_history"
  /\ svc.response.total = 1
  /\ Len(svc.response.predictions) = 0
  /\ Len(db.prediction_history) = 2

\* ---------------------------------------------------------------------------
\* C28: the record predict_hazard (resp. compute_analytics) appends carries
\* exactly the values of the response of the same call: area_id, hazard and
\* horizon as requested, risk_score, risk_level, confidence and the expected
\* window (resp. stability_index, confidence, the three metrics and the
\* requested time range); the record is written before the response is
\* returned, so a response is never returned without its record
C28_Last(history) == history[Len(history)]

C28_PredictStep ==
  \A area_id \in ServiceAreaIds, hazard \in ServiceHazards,
     horizon \in ServiceHorizons, now \in ServiceTimes :
    (SvcPredictHazard(area_id, hazard, horizon, now)
       /\ svc'.response # NoResponse) =>
      /\ Len(db'.prediction_history) = Len(db.prediction_history) + 1
      /\ LET row == C28_Last(db'.prediction_history)
             r   == svc'.response
         IN  /\ row.area_id = area_id
             /\ row.hazard = hazard
             /\ row.horizon = horizon
             /\ r.hazard = hazard
             /\ row.risk_score = r.risk_score
             /\ row.risk_level = r.risk_level
             /\ row.confidence = r.confidence
             /\ row.expected_window_from = r.expected_window.from_time
             /\ row.expected_window_to = r.expected_window.to_time

C28_AnalyticsStep ==
  \A area_id \in ServiceAreaIds :
    (SvcComputeAnalytics(area_id, 0, MaxTime, 0)
       /\ svc'.response # NoResponse) =>
      /\ Len(db'.analytics_history) = Len(db.analytics_history) + 1
      /\ LET row == C28_Last(db'.analytics_history)
             r   == svc'.response
         IN  /\ row.area_id = area_id
             /\ row.stability_index = r.stability_index
             /\ row.confidence = r.confidence
             /\ row.soil_moisture_avg = r.metrics.soil_moisture_avg
             /\ row.displacement_trend_mm_per_month =
                  r.metrics.displacement_trend_mm_per_month
             /\ row.rainfall_accumulation_mm =
                  r.metrics.rainfall_accumulation_mm
             /\ row.time_range_from = 0
             /\ row.time_range_to = MaxTime

C28_RecordMatchesResponse == [][C28_PredictStep /\ C28_AnalyticsStep]_vars

\* a prediction has been returned while the tables hold its record and a
\* record of an earlier compute_analytics
C28_Witness ==
  /\ svc.pc = "done"
  /\ svc.op = "PredictionService.predict_hazard"
  /\ svc.response # NoResponse
  /\ Len(db.prediction_history) > 0
  /\ C28_Last(db.prediction_history).risk_score = svc.response.risk_score
  /\ Len(db.analytics_history) > 0

\* ---------------------------------------------------------------------------
\* ScenarioSimulationModel.simulate called for every baseline and scenario,
\* next to ScenarioService.simulate_scenarios, which calls it with the
\* baseline HazardPredictionModel.predict gives
SimulatedScenarioLists ==
  { <<ThreadScenario>>,
    << [type |-> "load_increase", total_mm |-> None, rise_meters |-> None],
       [type |-> "groundwater_rise", total_mm |-> None,
        rise_meters |-> Some(Dec(11, 1))] >> }

\* ScenarioSimulationModel.simulate(baseline_risk, scenario)
SvcSimulate(baseline_risk, scenario) ==
  /\ svc.pc = "idle"
  /\ \E result \in {ScenarioSimulationModel_simulate(baseline_risk, scenario)} :
       svc' = [pc |-> "done", op |-> "ScenarioSimulationModel.simulate",
               baseline_risk |-> baseline_risk, scenario |-> scenario,
               raised |-> "", response |-> result]
  /\ UNCHANGED db
  /\ UNCHANGED notServices

NextScenarioService ==
  \/ \E baseline_risk \in BaselineRisks, scenario \in ScenarioInputs :
       SvcSimulate(baseline_risk, scenario)
  \/ \E area_id \in AreaIds, hazard \in HazardType,
        scenarios \in SimulatedScenarioLists :
       SvcSimulateScenarios(area_id, hazard, scenarios, 0)
  \/ SvcReturn

SpecScenarioService == Init /\ [][NextScenarioService]_vars

\* C29: for every baseline_risk in [0, 1] given to two decimals and every
\* scenario, simulate returns risk_score >= baseline_risk and risk_delta >= 0;
\* hence every result of ScenarioService.simulate_scenarios has a risk_score
\* that is at least the baseline_risk of the response
C29_NeverBelowBaseline ==
  /\ (svc.pc = "done" /\ svc.op = "ScenarioSimulationModel.simulate") =>
       /\ FLe(svc.baseline_risk, svc.response.risk_score)
       /\ FLe(Zero, svc.response.risk_delta)
  /\ (svc.pc = "done" /\ svc.op = "ScenarioService.simulate_scenarios") =>
       \A k \in 1..Len(svc.response.results) :
         FLe(svc.response.baseline_risk, svc.response.results[k].risk_score)

\* simulate_scenarios has answered with a baseline above 0 and two results,
\* the first of a load increase
C29_Witness ==
  /\ svc.pc = "done"
  /\ svc.op = "ScenarioService.simulate_scenarios"
  /\ FLt(Zero, svc.response.baseline_risk)
  /\ Len(svc.response.results) = 2
  /\ FLt(svc.response.baseline_risk, svc.response.results[1].risk_score)

\* ---------------------------------------------------------------------------
\* C30: every route is the 3-point polyline
\* [start, start + 0.01, start + 0.02 + 0.01 * route_num], the offset added to
\* both lon and lat, and for every valid start point every point of the
\* polyline is again a valid coordinate (lat in [-90, 90], lon in [-180, 180])
C30_Offset(x, route_num) ==
  FAdd(FAdd(x, Dec(2, 2)), FMul(FromInt(route_num), Dec(1, 2)))

\* the polyline of every route has the three stated points
C30_Polyline ==
  Done("RoutingEngine.compute_safe_routes") =>
    \A idx \in 0..(Len(req.start_points) - 1), route_num \in {0, 1} :
      LET start == req.start_points[idx + 1]
          line  == res[2 * idx + route_num + 1].geometry.coordinates
      IN  /\ Len(line) = 3
          /\ line[1] = <<start.lon, start.lat>>
          /\ line[2] = <<FAdd(start.lon, Dec(1, 2)), FAdd(start.lat, Dec(1, 2))>>
          /\ line[3] = <<C30_Offset(start.lon, route_num),
                         C30_Offset(start.lat, route_num)>>

\* schemas.Coordinate of a GeoJSON position [lon, lat]
C30_ValidPosition(p) ==
  /\ FLe(Negate(FromInt(180)), p[1]) /\ FLe(p[1], FromInt(180))
  /\ FLe(Negate(FromInt(90)), p[2]) /\ FLe(p[2], FromInt(90))

\* every point of every polyline is a valid coordinate
C30_PointsValid ==
  Done("RoutingEngine.compute_safe_routes") =>
    \A k \in 1..Len(res) :
      \A n \in 1..Len(res[k].geometry.coordinates) :
        C30_ValidPosition(res[k].geometry.coordinates[n])

C30_RoutePolylineValid == C30_Polyline /\ C30_PointsValid

\* ---------------------------------------------------------------------------
\* The analytics of agri_logic: db.soil_measurements is the table
\* soil_measurements, its aggregates are those of the database
MaxMeasurements == 2

\* the bodies of POST /areas/{area_id}/measurements
SoilValues ==
  { [nitrogen |-> FromInt(50), phosphorus |-> FromInt(30),
     potassium |-> FromInt(200), ph |-> Dec(65, 1)],
    [nitrogen |-> FromInt(45), phosphorus |-> FromInt(31),
     potassium |-> FromInt(180), ph |-> FromInt(7)],
    [nitrogen |-> Zero, phosphorus |-> Zero, potassium |-> Zero, ph |-> Zero] }

\* repository.create_measurement: db.add, db.commit, db.refresh
create_measurement(d, measurement, area_id) ==
  [d EXCEPT !.soil_measurements =
     Append(@, [id |-> Len(@) + 1, area_id |-> area_id,
                nitrogen |-> measurement.nitrogen,
                phosphorus |-> measurement.phosphorus,
                potassium |-> measurement.potassium,
                ph |-> measurement.ph])]

\* AreaService.add_measurement: None for an area that does not exist
add_measurement(d, area_id, measurement) ==
  IF get_area_by_id(d, area_id) = None THEN d
  ELSE create_measurement(d, measurement, area_id)

\* x / n of a float x >= 0 and an integer n >= 1, rounded once
FDivInt(x, n) ==
  IF IsZero(x) THEN Zero
  ELSE [RatioN(BigShl(x.m, 70), n) EXCEPT !.e = @ + x.e]

\* the sum of column c over the rows s, added up in the order of the table
RECURSIVE ColumnSum(_, _, _)
ColumnSum(s, c, n) ==
  IF n = 0 THEN Zero ELSE FAdd(ColumnSum(s, c, n - 1), s[n][c])

\* func.avg, func.min and func.max of a float column: NULL over no rows
ColumnAvg(s, c) ==
  IF s = <<>> THEN None ELSE Some(FDivInt(ColumnSum(s, c, Len(s)), Len(s)))
ColumnMin(s, c) ==
  IF s = <<>> THEN None
  ELSE Some(CHOOSE v \in {s[k][c] : k \in 1..Len(s)} :
              \A k \in 1..Len(s) : FLe(v, s[k][c]))
ColumnMax(s, c) ==
  IF s = <<>> THEN None
  ELSE Some(CHOOSE v \in {s[k][c] : k \in 1..Len(s)} :
              \A k \in 1..Len(s) : FLe(s[k][c], v))

\* the rows of a table that satisfy the filter, in the order of the table
RECURSIVE RowsWhereArea(_, _)
RowsWhereArea(table, area_id) ==
  IF table = <<>> THEN <<>>
  ELSE IF Head(table).area_id = area_id
    THEN <<Head(table)>> \o RowsWhereArea(Tail(table), area_id)
  ELSE RowsWhereArea(Tail(table), area_id)

\* agri_logic repository.get_area_analytics: the one row of the aggregate query
get_area_analytics(d, area_id) ==
  LET rows == RowsWhereArea(d.soil_measurements, area_id)
  IN  Some([avg_n |-> ColumnAvg(rows, "nitrogen"),
            avg_p |-> ColumnAvg(rows, "phosphorus"),
            avg_k |-> ColumnAvg(rows, "potassium"),
            avg_ph |-> ColumnAvg(rows, "ph"),
            count |-> Len(rows),
            min_ph |-> ColumnMin(rows, "ph"),
            max_ph |-> ColumnMax(rows, "ph")])

\* what the patched repository of the unit test returns: no row, a row over
\* no measurement, rows with aggregates that are None or 0.0
PatchedStats ==
  { None,
    Some([avg_n |-> None, avg_p |-> None, avg_k |-> None, avg_ph |-> None,
          count |-> 0, min_ph |-> None, max_ph |-> None]),
    Some([avg_n |-> Some(FromInt(50)), avg_p |-> Some(FromInt(30)),
          avg_k |-> Some(FromInt(200)), avg_ph |-> Some(Dec(65, 1)),
          count |-> 10, min_ph |-> Some(FromInt(6)), max_ph |-> Some(FromInt(7))]),
    Some([avg_n |-> None, avg_p |-> Some(FromInt(30)),
          avg_k |-> None, avg_ph |-> Some(Dec(65, 1)),
          count |-> 1, min_ph |-> None, max_ph |-> Some(FromInt(7))]),
    Some([avg_n |-> Some(Zero), avg_p |-> None,
          avg_k |-> Some(FromInt(200)), avg_ph |-> None,
          count |-> 2, min_ph |-> Some(Zero), max_ph |-> None]) }

\* a Python int, as a value that names its class; a float is a double
PyInt(n) == [class |-> "int", value |-> n]

\* x or 0 of an Optional[float]
OrZero(x) == IF Truthy(x) THEN x[1] ELSE PyInt(0)

\* a float field of a pydantic model: an int is converted
FloatField(v) == IF "class" \in DOMAIN v THEN FromInt(v.value) ELSE v

\* a slip: min_ph and max_ph taken from each other's aggregate
AgriAnalyticsService_get_area_analytics_swapped(area_id, stats) ==
  IF stats = None \/ stats[1].count = 0
  THEN [area_id |-> area_id, avg_nitrogen |-> Zero, avg_phosphorus |-> Zero,
        avg_potassium |-> Zero, avg_ph |-> Zero, measurement_count |-> 0,
        min_ph |-> Zero, max_ph |-> Zero]
  ELSE [area_id |-> area_id,
        avg_nitrogen |-> FloatField(OrZero(stats[1].avg_n)),
        avg_phosphorus |-> FloatField(OrZero(stats[1].avg_p)),
        avg_potassium |-> FloatField(OrZero(stats[1].avg_k)),
        avg_ph |-> FloatField(OrZero(stats[1].avg_ph)),
        measurement_count |-> stats[1].count,
        min_ph |-> FloatField(OrZero(stats[1].max_ph)),
        max_ph |-> FloatField(OrZero(stats[1].min_ph))]

\* agri_logic AnalyticsService.get_area_analytics, stats being what
\* repository.get_area_analytics returned
AgriAnalyticsService_get_area_analytics(area_id, stats) ==
  IF stats = None \/ stats[1].count = 0
  THEN [area_id |-> area_id,
        avg_nitrogen |-> FloatField(PyInt(0)), avg_phosphorus |-> FloatField(PyInt(0)),
        avg_potassium |-> FloatField(PyInt(0)), avg_ph |-> FloatField(PyInt(0)),
        measurement_count |-> 0,
        min_ph |-> FloatField(PyInt(0)), max_ph |-> FloatField(PyInt(0))]
  ELSE [area_id |-> area_id,
        avg_nitrogen |-> FloatField(OrZero(stats[1].avg_n)),
        avg_phosphorus |-> FloatField(OrZero(stats[1].avg_p)),
        avg_potassium |-> FloatField(OrZero(stats[1].avg_k)),
        avg_ph |-> FloatField(OrZero(stats[1].avg_ph)),
        measurement_count |-> stats[1].count,
        min_ph |-> FloatField(OrZero(stats[1].min_ph)),
        max_ph |-> FloatField(OrZero(stats[1].max_ph))]

\* AreaService.add_measurement(db, area_id, measurement)
AgriAddMeasurement(area_id, measurement) ==
  /\ svc.pc = "idle"
  /\ Len(db.soil_measurements) < MaxMeasurements
  /\ db' = add_measurement(db, area_id, measurement)
  /\ db' # db
  /\ UNCHANGED svc
  /\ UNCHANGED notServices

\* a call of AnalyticsService.get_area_analytics whose repository returns stats
AgriAnalyticsCall(area_id, patched, stats) ==
  /\ svc.pc = "idle"
  /\ \E response \in {AgriAnalyticsService_get_area_analytics(area_id, stats)} :
       svc' = [pc |-> "done", op |-> "AnalyticsService.get_area_analytics",
               area_id |-> area_id, patched |-> patched, stats |-> stats,
               raised |-> "", response |-> response]
  /\ UNCHANGED db
  /\ UNCHANGED notServices

\* AnalyticsService.get_area_analytics(db, area_id)
AgriGetAreaAnalytics(area_id) ==
  AgriAnalyticsCall(area_id, FALSE, get_area_analytics(db, area_id))

\* the same with the repository patched, as test_get_area_analytics does
AgriGetAreaAnalyticsPatched(area_id, stats) ==
  AgriAnalyticsCall(area_id, TRUE, stats)

NextAgri ==
  \/ \E user_id \in {1} : CreateArea(user_id)
  \/ \E area_id \in DbAreaIds, measurement \in SoilValues :
       AgriAddMeasurement(area_id, measurement)
  \/ \E area_id \in DbAreaIds : AgriGetAreaAnalytics(area_id)
  \/ \E area_id \in DbAreaIds, stats \in PatchedStats :
       AgriGetAreaAnalyticsPatched(area_id, stats)
  \/ SvcReturn

SpecAgri == Init /\ [][NextAgri]_vars

\* C23: AnalyticsService.get_area_analytics of agri_logic returns the
\* repository's aggregates unchanged (avg_nitrogen = avg_n, avg_phosphorus =
\* avg_p, avg_potassium = avg_k, avg_ph, min_ph, max_ph, measurement_count =
\* count) when the area has at least one measurement, replacing only an
\* aggregate that is None by 0; with no aggregate row or with count 0 it
\* returns the given area_id with every numeric field 0 and
\* measurement_count 0
C23_Same(aggregate, field) ==
  IF aggregate = None THEN field = Zero ELSE field = aggregate[1]

C23_AggregatesUnchanged ==
  (svc.pc = "done" /\ svc.op = "AnalyticsService.get_area_analytics") =>
    LET r == svc.response
    IN  /\ r.area_id = svc.area_id
        /\ IF svc.stats = None \/ svc.stats[1].count = 0
           THEN /\ r.measurement_count = 0
                /\ \A f \in {"avg_nitrogen", "avg_phosphorus", "avg_potassium",
                             "avg_ph", "min_ph", "max_ph"} : r[f] = Zero
           ELSE /\ r.measurement_count = svc.stats[1].count
                /\ C23_Same(svc.stats[1].avg_n, r.avg_nitrogen)
                /\ C23_Same(svc.stats[1].avg_p, r.avg_phosphorus)
                /\ C23_Same(svc.stats[1].avg_k, r.avg_potassium)
                /\ C23_Same(svc.stats[1].avg_ph, r.avg_ph)
                /\ C23_Same(svc.stats[1].min_ph, r.min_ph)
                /\ C23_Same(svc.stats[1].max_ph, r.max_ph)
        /\ ~svc.patched =>
             r.measurement_count =
               Len(RowsWhereArea(db.soil_measurements, svc.area_id))

\* the analytics of an area with two measurements of different ph
C23_Witness ==
  /\ svc.pc = "done"
  /\ svc.op = "AnalyticsService.get_area_analytics"
  /\ ~svc.patched
  /\ svc.response.measurement_count = 2
  /\ svc.response.avg_ph = Dec(675, 2)
  /\ svc.response.min_ph = Dec(65, 1)
  /\ svc.response.max_ph = FromInt(7)

====
